---- MODULE Spec2Model ----
(***************************************************************************)
(* A model of the Personal AI Agent: the agent orchestrator, the context   *)
(* manager, the memory system, the task manager, the authentication and    *)
(* authorization managers and the two-tier cache manager.                  *)
(*                                                                         *)
(* A user input is modelled by what the code's substring tests can see of  *)
(* it: `subs', the set of keyword-table substrings its lower-cased text    *)
(* contains, `inside', the set of task titles whose lower-cased text       *)
(* contains it, and `is_str', false for a caller passing a non-string.     *)
(* Confidences and importances are in tenths / thousandths, clocks are     *)
(* integer ticks of the unit the component compares in.                    *)
(***************************************************************************)
EXTENDS Integers, Sequences, FiniteSets, TLC

---------------------------------------------------------------------------
(* Bounds of the model.                                                    *)

\* settings.agent.context_window_size (default 10), scaled down
ContextWindowSize == 3
\* settings.agent.max_memory_items (default 1000), scaled down
MaxMemoryItems == 3
\* cap on the appends made to the context window in one run
MaxAppends == 5
\* cap on the ids (uuid4 draws) handed out in one run
MaxUuids == MaxMemoryItems + 1
\* cap on the process_input calls of one run
MaxTurns == 2
\* cap on the sessions an explicit initialize() call may start
MaxSessions == 1
\* cap on the days the memory clock advances
MaxDays == 1
\* cap on the retrieve_memories calls of one run
MaxRetrievals == 2
\* authenticate_user calls, and five-minute clock steps, of one behaviour
MaxLoginCalls == 7
MaxAuthTicks == 4
\* CacheManager.memory_cache_max_size (1000 in the code), the default_ttl
\* (3600 s in the code), the set/get calls and the clock steps of one
\* behaviour
memory_cache_max_size == 4
default_ttl == 2
MaxCacheOps == 7
MaxCacheTime == 1

\* BackupManager: the retention limit (the constructor's default is 10), the
\* number of calls and of seconds of a behaviour
max_backups == 2
MaxBackupCalls == 3
MaxBackupTicks == 1

\* TaskManager called directly: the tasks, the calls and the days of one
\* behaviour
MaxTasks == 3
MaxTaskCalls == 6
MaxTaskDays == 1
\* the applications of a pure helper in one behaviour
MaxTaskProbes == 1

\* PrivacyManager: the consent and processing records created in one
\* behaviour
MaxPrivacyIds == 3
\* the half years the PrivacyManager's clock advances
MaxPrivacyTicks == 2
\* the cleanup_expired_data calls of one behaviour
MaxCleanups == 2

\* DatabaseManager: the calls of one behaviour
MaxDbCalls == 3

\* CLIInterface: the inputs read in one run
MaxCliInputs == 3

\* ContextManager: the analyze_user_intent_trend calls of one behaviour
MaxTrendCalls == 2

\* AuthenticationManager sessions: SecurityConfig.jwt_expire_minutes (30 by
\* default) and the lifetime of a refresh token (7 days) in minutes, the
\* sessions created, the tokens handed out and the quarter hours
\* of one behaviour
jwt_expire_minutes == 30
refresh_token_expire == 10080
MaxSessionIds == 2
MaxTokens == 3
MaxSessionTicks == 2

---------------------------------------------------------------------------
(* Generic helpers for Python list / dict / deque semantics.               *)

Max2(a, b) == IF a >= b THEN a ELSE b

Min2(a, b) == IF a <= b THEN a ELSE b

\* s restricted to the indices in keep, order preserved
SubSeqIdx(s, keep) ==
    [k \in 1..Cardinality(keep) |->
        s[CHOOSE i \in keep : Cardinality({j \in keep : j <= i}) = k]]

\* position (from 0) of index i in Python's stable ascending sort of keys
StableRank(keys, i) ==
    Cardinality({j \in DOMAIN keys :
        keys[j] < keys[i] \/ (keys[j] = keys[i] /\ j < i)})

\* s without the first n elements of its stable ascending sort by keys
DropLowest(s, keys, n) ==
    SubSeqIdx(s, {i \in DOMAIN s : StableRank(keys, i) >= n})

\* a bounded append that, when full, discards the second oldest element
\* instead of the oldest (excluded by C5)
DequeAppend_keeping_oldest(d, x, n) ==
    IF n = 0 THEN d
    ELSE IF Len(d) >= n THEN Append(<<Head(d)>> \o Tail(Tail(d)), x)
    ELSE Append(d, x)

\* collections.deque(maxlen = n).append(x)
DequeAppend(d, x, n) ==
    IF n = 0 THEN d
    ELSE IF Len(d) >= n THEN Append(Tail(d), x)
    ELSE Append(d, x)

\* number of keywords of a table found in the input
Hits(input, keywords) == Cardinality(input.subs \cap keywords)

\* max(scores.keys(), key = scores.get) over the buckets with a hit, the
\* dict being filled in the order of `order': the first maximal bucket
FirstMax(order, score) ==
    LET hit == {i \in DOMAIN order : score[order[i]] > 0}
        best == CHOOSE i \in hit :
                    /\ \A j \in hit : score[order[j]] <= score[order[i]]
                    /\ \A j \in hit : score[order[j]] = score[order[i]] => i <= j
    IN  order[best]

---------------------------------------------------------------------------
(* User inputs.                                                            *)

Txt(subs) == [subs |-> subs, inside |-> {}, is_str |-> TRUE]

\* "緊急のタスクを作成してください"
InputUrgentCreateJa == Txt({"ja_kinkyuu", "ja_tasuku", "ja_sakusei"})

\* "urgent: add a todo"
InputUrgentCreateEn == Txt({"urgent", "add", "todo"})

\* "タスクについて"
InputTaskGeneral == Txt({"ja_tasuku"})

\* "メールを書いて"
InputEmail == Txt({"ja_meeru"})

\* "お礼メールのテンプレート"
InputEmailTemplate == Txt({"ja_meeru", "ja_tenpureeto"})

\* "こんにちは"
InputGeneral == Txt({})

\* "急いで 困った"
InputUrgentMood == Txt({"ja_isoide", "ja_komatta"})

\* process_input(None)
InputNone == [subs |-> {}, inside |-> {}, is_str |-> FALSE]

\* the inputs the context manager is driven with on its own
ContextInputs == {InputGeneral, InputTaskGeneral, InputUrgentMood, InputNone}

\* the optional `context' argument, by the one key the code reads from it
Extras == {"none", "busy"}

VARIABLES
    \* ContextManager; ctx_clock is the datetime.now() read at an append
    context_history, user_state, analysis_cache, ctx_clock,
    \* MemorySystem; next_uuid counts the uuid4 draws, mem_day is the clock,
    \* interaction_log holds the ids store_interaction returned since the
    \* latest start_session
    memory_items, sessions, short_term_memory, next_uuid, mem_day,
    interaction_log,
    \* MemorySystem.max_memory_items, read from the settings at construction;
    \* mem_last records the latest retrieve_memories call
    max_memory_items, mem_last,
    \* TaskManager.tasks and CommunicationModule.templates[..].usage_count
    tasks, template_usage,
    \* PersonalAIAgent; last_call and outcome record the latest
    \* process_input call and what it gave its caller, turns counts them,
    \* error_log holds the exceptions its except branch logged
    is_running, current_session_id, learning_enabled, last_call, outcome, turns,
    error_log,
    \* AuthenticationManager; auth_now is datetime.now() in minutes,
    \* auth_last records the latest authenticate_user call, auth_calls
    \* counts them, failure_log holds every failed attempt ever recorded
    failed_attempts, auth_now, auth_calls, auth_last, failure_log,
    \* AuthorizationManager; authz_last records the latest call
    resource_permissions, authz_last,
    \* CacheManager; redis_client is "None" or "connected" (a client object),
    \* redis_up tells whether the Redis server answers, redis_store is what
    \* the server holds, cache_now is datetime.now() in seconds, cache_last
    \* records the latest call, cache_ops counts them, written holds for each
    \* key the latest set
    memory_cache, redis_client, redis_store, cache_now, cache_ops, cache_last,
    written, redis_up,
    \* BackupManager; backup_disk is the content of backup_dir, targets the
    \* files and directories backups are made of and restored to, aside the
    \* copies restore put aside, backup_now is datetime.now() in seconds,
    \* backup_last records the latest call, backup_calls counts them,
    \* created records every create_*_backup call
    backup_history, backup_disk, targets, aside, backup_now, backup_calls,
    backup_last, created,
    \* TaskManager called directly: task_day is the date of datetime.now(),
    \* task_last records the latest call, task_calls counts them
    task_day, task_calls, task_last,
    \* PrivacyManager; privacy_ids counts the uuid4 draws, privacy_last
    \* records the latest call
    consent_records, processing_records, privacy_ids, privacy_last,
    \* DatabaseManager; db_committed holds the operations whose transaction
    \* was committed, db_last records the latest call, db_calls counts them
    db_initialized, db_committed, db_calls, db_last,
    \* CLIInterface.run; cli_pc is the position of run(), cli_trace the
    \* inputs read and the calls made on the agent so far
    cli_pc, running, session_active, cli_trace,
    \* the latest analyze_user_intent_trend call and the number of calls
    trend_last,
    \* BackupManager: the max_backups it was constructed with and the history
    \* file initialize() found
    backup_setup,
    \* AuthenticationManager.active_sessions; session_ids counts the
    \* secrets.token_urlsafe draws, issued holds the tokens handed out,
    \* session_now is datetime.now() in minutes, session_last records the
    \* latest call, logged_out holds the tokens logout_user returned True for
    active_sessions, session_ids, issued, session_now, session_last,
    logged_out,
    \* PrivacyManager: datetime.now() in days, and the number of
    \* cleanup_expired_data calls
    privacy_now, cleanup_calls

ctxVars == <<context_history, user_state, analysis_cache, ctx_clock>>

memVars == <<memory_items, sessions, short_term_memory, next_uuid, mem_day,
             interaction_log, max_memory_items, mem_last>>

modVars == <<tasks, template_usage>>

agentVars == <<is_running, current_session_id, learning_enabled, last_call,
               outcome, turns, error_log>>

authVars == <<failed_attempts, auth_now, auth_calls, auth_last, failure_log>>

authzVars == <<resource_permissions, authz_last>>

cacheVars == <<memory_cache, redis_client, redis_store, cache_now, cache_ops,
               cache_last, written, redis_up>>

backupVars == <<backup_history, backup_disk, targets, aside, backup_now,
                backup_calls, backup_last, created>>

\* the state of the components that follow the cache
taskOpVars == <<task_day, task_calls, task_last>>

privacyVars == <<consent_records, processing_records, privacy_ids,
                 privacy_last>>

\* the state of the components that follow the TaskManager
dbVars == <<db_initialized, db_committed, db_calls, db_last>>

cliVars == <<cli_pc, running, session_active, cli_trace>>

trendVars == <<trend_last, backup_setup>>

sessionVars == <<active_sessions, session_ids, issued, session_now,
                 session_last, logged_out>>

sweepVars == <<privacy_now, cleanup_calls>>

laterVars == <<privacyVars, dbVars, cliVars, trendVars, sessionVars,
               sweepVars>>

afterBackupVars == <<taskOpVars, laterVars>>

restVars == <<backupVars, taskOpVars, laterVars>>

serviceVars == <<authVars, authzVars, cacheVars, restVars>>

vars == <<ctxVars, memVars, modVars, agentVars, serviceVars>>

nonCtxVars == <<memVars, modVars, agentVars, serviceVars>>

nonMemVars == <<ctxVars, modVars, agentVars, serviceVars>>

coreVars == <<ctxVars, memVars, modVars, agentVars>>

\* the state of the components that precede the PrivacyManager
earlierVars == <<coreVars, authVars, authzVars, cacheVars, backupVars,
                 taskOpVars, trendVars, sessionVars, sweepVars>>

\* everything but the sessions and tokens of the AuthenticationManager
nonSessionVars == <<coreVars, authVars, authzVars, cacheVars, backupVars,
                    taskOpVars, privacyVars, dbVars, cliVars, trendVars,
                    sweepVars>>

\* everything but the PrivacyManager's records and its clock
nonSweepVars == <<coreVars, authVars, authzVars, cacheVars, backupVars,
                  taskOpVars, dbVars, cliVars, trendVars, sessionVars>>

\* everything but the ContextManager and the record of its trend analysis
nonTrendVars == <<memVars, modVars, agentVars, authVars, authzVars,
                  cacheVars, backupVars, taskOpVars, privacyVars, dbVars,
                  cliVars, sessionVars, sweepVars>>

nonPrivacyVars == <<earlierVars, dbVars, cliVars>>

nonDbVars == <<earlierVars, privacyVars, cliVars>>

nonCliVars == <<earlierVars, privacyVars, dbVars>>

settledVars == <<coreVars, authVars, authzVars, cacheVars>>

\* what the direct calls of TaskManager leave alone, the MemorySystem apart
nonTaskVars == <<ctxVars, agentVars, template_usage, authVars, authzVars,
                 cacheVars, backupVars, laterVars>>

---------------------------------------------------------------------------
(* core/context.py: ContextManager                                         *)

ContextItem(t, content, ctype, imp) ==
    [timestamp |-> t, content |-> content, context_type |-> ctype,
     importance |-> imp]

focus_order == <<"work", "personal", "learning", "planning", "communication">>

focus_keywords ==
    [f \in {"work", "personal", "learning", "planning", "communication"} |->
        CASE f = "work" -> {"ja_shigoto", "ja_gyoumu", "ja_purojekuto", "ja_kaigi", "ja_tasuku"}
          [] f = "personal" -> {"ja_kojin", "ja_puraibeeto", "ja_kazoku", "ja_shumi"}
          [] f = "learning" -> {"ja_gakushuu", "ja_benkyou", "ja_oshiete", "ja_shirabete"}
          [] f = "planning" -> {"ja_yotei", "ja_sukejuuru", "ja_keikaku", "todo"}
          [] f = "communication" -> {"ja_meeru", "ja_renraku", "ja_henshin", "ja_denwa"}]

_update_current_focus(us, input) ==
    LET score == [f \in DOMAIN focus_keywords |-> Hits(input, focus_keywords[f])]
    IN  IF \E f \in DOMAIN score : score[f] > 0
        THEN [us EXCEPT !.current_focus = FirstMax(focus_order, score)]
        ELSE us

_update_mood_estimation(us, input) ==
    LET urgent == {"ja_isoide", "ja_shikyuu", "ja_suguni", "ja_hayaku"}
        negative == {"ja_komatta", "ja_taihen", "ja_tsukare", "ja_isogashii", "ja_mondai"}
        positive == {"ja_arigatou", "ja_yoi", "ja_ureshii", "ja_tasukaru", "ja_subarashii"}
    IN  [us EXCEPT !.mood =
            IF input.subs \cap urgent # {} THEN "urgent"
            ELSE IF input.subs \cap negative # {} THEN "stressed"
            ELSE IF input.subs \cap positive # {} THEN "positive"
            ELSE "neutral"]

_update_availability(us, extra) ==
    [us EXCEPT !.availability = IF extra = "none" THEN "available" ELSE extra]

\* the state update_context leaves behind; `raised' when user_input.lower()
\* fails on a non-string, after the append and the counter update
ContextAfterUpdate(input, extra) ==
    LET hist == DequeAppend(context_history,
                    ContextItem(ctx_clock + 1, input, "user_input", 8),
                    ContextWindowSize)
        counted == [user_state EXCEPT !.interaction_count = @ + 1]
    IN  IF ~input.is_str
        THEN [history |-> hist, state |-> counted, cache |-> analysis_cache,
              raised |-> TRUE]
        ELSE [history |-> hist,
              state |-> _update_availability(
                           _update_mood_estimation(
                               _update_current_focus(counted, input), input),
                           extra),
              cache |-> {},
              raised |-> FALSE]

update_context(input, extra) ==
    /\ ctx_clock < MaxAppends
    /\ LET r == ContextAfterUpdate(input, extra)
       IN  /\ context_history' = r.history
           /\ user_state' = r.state
           /\ analysis_cache' = r.cache
    /\ ctx_clock' = ctx_clock + 1
    /\ UNCHANGED nonCtxVars

add_agent_response(response) ==
    /\ ctx_clock < MaxAppends
    /\ context_history' = DequeAppend(context_history,
           ContextItem(ctx_clock + 1, response, "agent_response", 6),
           ContextWindowSize)
    /\ ctx_clock' = ctx_clock + 1
    /\ UNCHANGED <<user_state, analysis_cache>>
    /\ UNCHANGED nonCtxVars

add_system_event(event) ==
    /\ ctx_clock < MaxAppends
    /\ context_history' = DequeAppend(context_history,
           ContextItem(ctx_clock + 1, event, "system_event", 4),
           ContextWindowSize)
    /\ ctx_clock' = ctx_clock + 1
    /\ UNCHANGED <<user_state, analysis_cache>>
    /\ UNCHANGED nonCtxVars

InitContext ==
    /\ context_history = <<>>
    /\ user_state = [current_focus |-> "None", mood |-> "None",
                     availability |-> "available", interaction_count |-> 0]
    /\ analysis_cache = {}
    /\ ctx_clock = 0

NextContext ==
    \/ \E input \in ContextInputs, extra \in Extras : update_context(input, extra)
    \/ \E response \in {"reply"} : add_agent_response(response)
    \/ \E event \in {"event"} : add_system_event(event)


\* "メールの返信"
InputReply == Txt({"ja_meeru", "ja_henshin"})

\* the inputs the trend analysis is driven with
TrendInputs == {InputGeneral, InputTaskGeneral, InputReply}

intent_order_of_trend ==
    <<"task_management", "information_seeking", "communication", "analysis">>

intent_keywords ==
    [t \in {"task_management", "information_seeking", "communication",
            "analysis"} |->
        CASE t = "task_management" ->
                 {"ja_tasuku", "todo", "ja_yarukoto", "ja_yotei"}
          [] t = "information_seeking" ->
                 {"ja_oshiete", "ja_shirabete", "ja_shiritai", "?"}
          [] t = "communication" ->
                 {"ja_meeru", "ja_renraku", "ja_henshin", "draft"}
          [] t = "analysis" ->
                 {"ja_bunseki", "ja_toukei", "ja_deeta", "ja_keikou"}]

\* the result analyze_user_intent_trend computes from a window: the count of
\* every intent (the trends list names those above zero), the first intent
\* of the largest count, and the number of user inputs
IntentTrend(history) ==
    LET user_inputs == {i \in DOMAIN history :
                           history[i].context_type = "user_input"}
        intent_counts ==
            [t \in DOMAIN intent_keywords |->
                Cardinality({i \in user_inputs :
                    history[i].content.subs \cap intent_keywords[t] # {}})]
    IN  IF user_inputs = {}
        THEN [trends |-> <<>>, dominant_intent |-> "None", total_inputs |-> 0]
        ELSE [trends |-> intent_counts,
              dominant_intent |->
                  IF \E t \in DOMAIN intent_counts : intent_counts[t] > 0
                  THEN FirstMax(intent_order_of_trend, intent_counts)
                  ELSE "None",
              total_inputs |-> Cardinality(user_inputs)]

\* the cache and the result of analyze_user_intent_trend: a cached result is
\* returned as it is; the result for a window without user input is not
\* cached
analyze_user_intent_trend(cache, history) ==
    IF cache # {}
    THEN [cache |-> cache, result |-> CHOOSE r \in cache : TRUE]
    ELSE IF \A i \in DOMAIN history : history[i].context_type # "user_input"
    THEN [cache |-> cache, result |-> IntentTrend(history)]
    ELSE [cache |-> {IntentTrend(history)}, result |-> IntentTrend(history)]

analyze_user_intent_trend_call ==
    /\ trend_last.calls < MaxTrendCalls
    /\ \E r \in {analyze_user_intent_trend(analysis_cache, context_history)} :
           /\ analysis_cache' = r.cache
           /\ trend_last' = [calls |-> trend_last.calls + 1,
                             result |-> r.result]
    /\ UNCHANGED <<context_history, user_state, ctx_clock, backup_setup,
                   nonTrendVars>>

InitTrend ==
    trend_last = [calls |-> 0,
                  result |-> [trends |-> <<>>, dominant_intent |-> "None",
                              total_inputs |-> 0]]

NextContextTrend ==
    \/ \E input \in TrendInputs : update_context(input, "none")
    \/ \E response \in {"reply"} : add_agent_response(response)
    \/ \E event \in {"event"} : add_system_event(event)
    \/ analyze_user_intent_trend_call

---------------------------------------------------------------------------
(* core/memory.py: MemorySystem                                            *)

\* the metadata maps the importance computation can tell apart
Metadatas ==
    { [confidence |-> 0, user_feedback |-> "none"],
      [confidence |-> 9, user_feedback |-> "positive"] }

NoMetadata == [confidence |-> 0, user_feedback |-> "none"]

\* len(content) of the stored text
Lengths == {0, 1500}

base_importance(content_type) ==
    CASE content_type = "interaction" -> 500
      [] content_type = "learning" -> 700
      [] content_type = "knowledge" -> 600
      [] content_type = "preference" -> 800
      [] OTHER -> 500

\* a variant without the cap at 1.0 (excluded by C22)
_calculate_importance_uncapped(len, content_type, metadata) ==
    LET length_factor == (Min2(len, 1000) * 200) \div 1000
        metadata_factor ==
            (IF metadata.confidence > 8 THEN 100 ELSE 0)
            + (IF metadata.user_feedback = "positive" THEN 200 ELSE 0)
    IN  base_importance(content_type) + length_factor + metadata_factor

_calculate_importance(len, content_type, metadata) ==
    LET length_factor == (Min2(len, 1000) * 200) \div 1000
        metadata_factor ==
            (IF metadata.confidence > 8 THEN 100 ELSE 0)
            + (IF metadata.user_feedback = "positive" THEN 200 ELSE 0)
    IN  Min2(base_importance(content_type) + length_factor + metadata_factor,
             1000)

\* the words a query can find in the content every item of a type has (the
\* keys of the JSON text store_interaction and store_knowledge build), and
\* in its tags
DefaultContent(content_type) ==
    CASE content_type = "interaction" ->
             {"user_input", "agent_response", "intent", "metadata"}
      [] content_type = "knowledge" -> {"content", "source", "metadata"}
      [] OTHER -> {}

MemoryItem(id, content_type, importance) ==
    [id |-> id, content_type |-> content_type, timestamp |-> mem_day,
     importance |-> importance, access_count |-> 1,
     content |-> DefaultContent(content_type), tags |-> {content_type}]

\* final_score of _cleanup_old_memories, times 10000
CleanupScore(item) ==
    item.importance * (10 - (mem_day - item.timestamp))
    + 10 * Min2(item.access_count * 100, 500)

_cleanup_old_memories(items) ==
    DropLowest(items, [i \in DOMAIN items |-> CleanupScore(items[i])],
               Len(items) \div 4)

\* memory_items after _store_memory_item(item), the id being fresh
_store_memory_item(items, item) ==
    LET added == Append(items, item)
    IN  IF Len(added) > max_memory_items THEN _cleanup_old_memories(added)
        ELSE added

\* a variant that, when the list is full, refuses the new id and keeps the
\* oldest (excluded by C6)
ShortTermAfter_keeping_oldest(stm, memory_id) ==
    IF Len(stm) >= ContextWindowSize THEN stm ELSE Append(stm, memory_id)

\* short_term_memory after store_interaction appended memory_id
ShortTermAfter(stm, memory_id) ==
    LET added == Append(stm, memory_id)
    IN  IF Len(added) > ContextWindowSize THEN Tail(added) ELSE added

store_interaction(len, metadata) ==
    /\ next_uuid < MaxUuids
    /\ next_uuid' = next_uuid + 1
    /\ memory_items' = _store_memory_item(memory_items,
           MemoryItem(next_uuid + 1, "interaction",
               _calculate_importance(len, "interaction", metadata)))
    /\ short_term_memory' = ShortTermAfter(short_term_memory, next_uuid + 1)
    /\ interaction_log' = Append(interaction_log, next_uuid + 1)
    /\ UNCHANGED <<sessions, mem_day, max_memory_items, mem_last>>
    /\ UNCHANGED nonMemVars

\* metadata: the learning_data map itself, by the two keys the importance
\* computation reads from it
store_learning_data(len, metadata) ==
    /\ next_uuid < MaxUuids
    /\ next_uuid' = next_uuid + 1
    /\ memory_items' = _store_memory_item(memory_items,
           MemoryItem(next_uuid + 1, "learning",
               _calculate_importance(len, "learning", metadata)))
    /\ UNCHANGED <<sessions, short_term_memory, mem_day, max_memory_items,
                   mem_last, interaction_log>>
    /\ UNCHANGED nonMemVars

store_knowledge(len, metadata) ==
    /\ next_uuid < MaxUuids
    /\ next_uuid' = next_uuid + 1
    /\ memory_items' = _store_memory_item(memory_items,
           MemoryItem(next_uuid + 1, "knowledge",
               _calculate_importance(len, "knowledge", metadata)))
    /\ UNCHANGED <<sessions, short_term_memory, mem_day, max_memory_items,
                   mem_last, interaction_log>>
    /\ UNCHANGED nonMemVars

\* the keys update_user_preference is called with
PreferenceKeys == {"theme", "language"}

update_user_preference(key) ==
    /\ next_uuid < MaxUuids
    /\ next_uuid' = next_uuid + 1
    /\ memory_items' = _store_memory_item(memory_items,
           [MemoryItem(next_uuid + 1, "preference", 800)
                EXCEPT !.content = {key}, !.tags = {"preference", key}])
    /\ UNCHANGED <<sessions, short_term_memory, mem_day, max_memory_items,
                   mem_last,
                   interaction_log>>
    /\ UNCHANGED nonMemVars

\* summary: <<>> is None, <<n>> the text "Session summary: n interactions
\* over <duration>" of _generate_session_summary
SessionData(session_id) ==
    [session_id |-> session_id, ended |-> FALSE, interactions |-> <<>>,
     summary |-> <<>>]

start_session ==
    /\ next_uuid < MaxUuids
    /\ next_uuid' = next_uuid + 1
    /\ sessions' = Append(sessions, SessionData(next_uuid + 1))
    /\ short_term_memory' = <<>>
    /\ interaction_log' = <<>>
    /\ UNCHANGED <<memory_items, mem_day, max_memory_items, mem_last>>
    /\ UNCHANGED nonMemVars

\* sessions after end_session(session_id)
SessionsAfterEnd(ss, session_id) ==
    [i \in DOMAIN ss |->
        IF ss[i].session_id = session_id
        THEN [ss[i] EXCEPT !.ended = TRUE,
                           !.summary = IF ss[i].interactions # <<>>
                                       THEN <<Len(ss[i].interactions)>>
                                       ELSE @]
        ELSE ss[i]]

end_session(session_id) ==
    /\ sessions' = SessionsAfterEnd(sessions, session_id)
    /\ UNCHANGED <<memory_items, short_term_memory, next_uuid, mem_day,
                   max_memory_items, mem_last,
                   interaction_log>>
    /\ UNCHANGED nonMemVars

\* a day passes
\* get_context_memories(): the stored items named by the short-term list
get_context_memories(items, stm) ==
    LET present == {i \in DOMAIN stm :
                       \E k \in DOMAIN items : items[k].id = stm[i]}
        item_of(id) == items[CHOOSE k \in DOMAIN items : items[k].id = id]
    IN  [n \in DOMAIN SubSeqIdx(stm, present) |->
            item_of(SubSeqIdx(stm, present)[n])]

MemoryTick ==
    /\ mem_day < MaxDays
    /\ mem_day' = mem_day + 1
    /\ UNCHANGED <<memory_items, sessions, short_term_memory, next_uuid,
                   interaction_log, max_memory_items, mem_last>>
    /\ UNCHANGED nonMemVars

\* no retrieve_memories call was made yet
NoRetrieval ==
    [calls |-> 0, query |-> <<>>, content_type |-> "", limit |-> 0,
     min_importance |-> 0, before |-> <<>>, result |-> <<>>]

InitMemory ==
    /\ memory_items = <<>>
    /\ sessions = <<>>
    /\ short_term_memory = <<>>
    /\ next_uuid = 0
    /\ mem_day = 0
    /\ interaction_log = <<>>
    /\ max_memory_items = MaxMemoryItems
    /\ mem_last = NoRetrieval

NextMemory ==
    \/ \E len \in Lengths, metadata \in Metadatas :
           store_interaction(len, metadata)
    \/ \E len \in Lengths : store_learning_data(len, NoMetadata)
    \/ \E len \in Lengths : store_knowledge(len, NoMetadata)
    \/ start_session
    \/ \E i \in DOMAIN sessions : end_session(sessions[i].session_id)
    \/ MemoryTick

\* settings.agent.max_memory_items is set when the configuration is loaded
\* and read by MemorySystem.__init__, before anything is stored
configure_max_memory_items(n) ==
    /\ next_uuid = 0 /\ memory_items = <<>>
    /\ max_memory_items # n
    /\ max_memory_items' = n
    /\ UNCHANGED <<memory_items, sessions, short_term_memory, next_uuid,
                   mem_day, interaction_log, mem_last>>
    /\ UNCHANGED nonMemVars

\* the four store operations with every content length and metadata, under
\* every configured limit
NextMemoryStore ==
    \/ \E len \in Lengths, metadata \in Metadatas :
           store_interaction(len, metadata)
    \/ \E len \in Lengths, metadata \in Metadatas :
           store_learning_data(len, metadata)
    \/ \E len \in Lengths, metadata \in Metadatas :
           store_knowledge(len, metadata)
    \/ \E key \in PreferenceKeys : update_user_preference(key)
    \/ \E n \in 1..MaxMemoryItems : configure_max_memory_items(n)

\* the knowledge texts stored, by the words a query can find in them
Knowledges == {{"report"}, {"report", "budget"}}

\* store_knowledge(knowledge, source) with a text of the given words
store_knowledge_about(knowledge, len, metadata) ==
    /\ next_uuid < MaxUuids
    /\ next_uuid' = next_uuid + 1
    /\ memory_items' = _store_memory_item(memory_items,
           [MemoryItem(next_uuid + 1, "knowledge",
                       _calculate_importance(len, "knowledge", metadata))
                EXCEPT !.content = @ \cup knowledge])
    /\ UNCHANGED <<sessions, short_term_memory, mem_day, max_memory_items,
                   mem_last, interaction_log>>
    /\ UNCHANGED nonMemVars

\* relevance_score of an item for the words of a query, in halves: 1.0 for
\* a word found in the content, 0.5 for a word found in a tag
Relevance(item, query_words) ==
    2 * Cardinality({k \in DOMAIN query_words :
                         query_words[k] \in item.content})
    + Cardinality({k \in DOMAIN query_words : query_words[k] \in item.tags})

\* a variant that keeps the items no word of the query is found in
\* (excluded by C23)
Matching_any_relevance(items, query_words, content_type, min_importance) ==
    {i \in DOMAIN items :
        /\ content_type = "" \/ items[i].content_type = content_type
        /\ items[i].importance >= min_importance}

\* the indices of the items the loop of retrieve_memories appends to
\* matching_items; content_type "" stands for None
Matching(items, query_words, content_type, min_importance) ==
    {i \in DOMAIN items :
        /\ content_type = "" \/ items[i].content_type = content_type
        /\ items[i].importance >= min_importance
        /\ Relevance(items[i], query_words) > 0}

\* the sort key (relevance, importance) as one number
SortKey(item, query_words) ==
    Relevance(item, query_words) * 10000 + item.importance

\* matching_items.sort(key = ..., reverse = True): descending, equal keys
\* in their original order
SortedDescending(items, matching, query_words) ==
    LET before(j, i) ==
            \/ SortKey(items[j], query_words) > SortKey(items[i], query_words)
            \/ /\ SortKey(items[j], query_words) = SortKey(items[i], query_words)
               /\ j < i
    IN  [k \in 1..Cardinality(matching) |->
            items[CHOOSE i \in matching :
                      Cardinality({j \in matching : before(j, i)}) = k - 1]]

\* the queries of the retrieve_memories calls, and their content-type
\* filter ("": none), limit and importance threshold
Queries == {<<"budget", "report">>, <<"theme", "report">>, <<"metadata", "minutes">>}

Searches ==
    {<<"", MaxUuids, 0>>, <<"knowledge", 1, 0>>, <<"", MaxUuids, 700>>}

retrieve_memories(query_words, content_type, limit, min_importance) ==
    /\ mem_last.calls < MaxRetrievals
    /\ \E matching \in {Matching(memory_items, query_words, content_type,
                                 min_importance)} :
       \E accessed \in {[i \in DOMAIN memory_items |->
                            IF i \in matching
                            THEN [memory_items[i] EXCEPT !.access_count = @ + 1]
                            ELSE memory_items[i]]} :
       \E sorted \in {SortedDescending(accessed, matching, query_words)} :
           /\ memory_items' = accessed
           /\ mem_last' =
                  [calls |-> mem_last.calls + 1, query |-> query_words,
                   content_type |-> content_type, limit |-> limit,
                   min_importance |-> min_importance,
                   before |-> memory_items,
                   result |-> SubSeq(sorted, 1, Min2(limit, Len(sorted)))]
    /\ UNCHANGED <<sessions, short_term_memory, next_uuid, mem_day,
                   interaction_log, max_memory_items>>
    /\ UNCHANGED nonMemVars

NextRetrieve ==
    \/ store_interaction(0, NoMetadata)
    \/ \E knowledge \in Knowledges :
           store_knowledge_about(knowledge,
                                 IF "budget" \in knowledge THEN 0 ELSE 1500,
                                 NoMetadata)
    \/ update_user_preference("theme")
    \/ \E query_words \in Queries, search \in Searches :
           retrieve_memories(query_words, search[1], search[2], search[3])

---------------------------------------------------------------------------
(* integrations/llm_provider.py: what one generate_response call does      *)

JsonTaskInfo == [title |-> "report", priority |-> "urgent"]

\* LLMResponse.confidence of both vendor clients, in tenths
LLMConfidence == 8

---------------------------------------------------------------------------
(* modules/task_manager.py: TaskManager                                    *)

priority_order == <<"urgent", "high", "medium", "low">>

priority_keywords ==
    [p \in {"urgent", "high", "medium", "low"} |->
        CASE p = "urgent" -> {"urgent", "asap", "immediately", "critical"}
          [] p = "high" -> {"important", "priority", "high", "soon"}
          [] p = "medium" -> {"normal", "medium", "standard"}
          [] p = "low" -> {"later", "low", "when_possible", "someday"}]

\* the first priority, in table order, with a keyword in the input
PriorityOf(input) ==
    LET hit == {i \in DOMAIN priority_order :
                   input.subs \cap priority_keywords[priority_order[i]] # {}}
    IN  IF hit = {} THEN "None"
        ELSE priority_order[CHOOSE i \in hit : \A j \in hit : i <= j]

_analyze_task_intent(input) ==
    [action |->
        IF input.subs \cap {"create", "add", "new", "register", "todo"} # {}
            THEN "create"
        ELSE IF input.subs \cap {"list", "show", "display", "view"} # {}
            THEN "list"
        ELSE IF input.subs \cap {"update", "change", "modify", "edit"} # {}
            THEN "update"
        ELSE IF input.subs \cap {"complete", "finish", "done"} # {}
            THEN "complete"
        ELSE IF input.subs \cap {"delete", "remove", "cancel"} # {}
            THEN "delete"
        ELSE "general",
     priority |-> PriorityOf(input)]

\* an Optional value: <<>> is None, <<v>> is v
None == <<>>

Some(v) == <<v>>

Task(id, title, priority, due_date) ==
    [id |-> id, title |-> title, status |-> "pending", priority |-> priority,
     due_date |-> due_date, completed_at |-> None,
     actual_duration |-> None]

\* self.tasks[task.id] = task on the insertion-ordered dict
StoreTask(ts, task) ==
    IF \E i \in DOMAIN ts : ts[i].id = task.id
    THEN [i \in DOMAIN ts |-> IF ts[i].id = task.id THEN task ELSE ts[i]]
    ELSE Append(ts, task)

\* a variant that completes pending tasks only (excluded by C16)
TasksAfterComplete_pending_only(ts, task_id, now) ==
    [i \in DOMAIN ts |->
        IF ts[i].id = task_id /\ ts[i].status = "pending"
        THEN [ts[i] EXCEPT !.status = "completed", !.completed_at = Some(now)]
        ELSE ts[i]]

\* the task store after complete_task(task_id) at date now
\* the status is assigned first, the test of the status for the duration
\* comes after it; updated_at is the time assigned just before the test
TasksAfterComplete(ts, task_id, now) ==
    [i \in DOMAIN ts |->
        IF ts[i].id = task_id
        THEN LET done == [ts[i] EXCEPT !.status = "completed",
                                       !.completed_at = Some(now)]
                 updated_at == now
             IN  IF done.status = "in_progress"
                 THEN [done EXCEPT !.actual_duration = Some(now - updated_at)]
                 ELSE done
        ELSE ts[i]]

\* index of the first task whose title is in the input or holds it, or 0
_identify_task_from_input(ts, input) ==
    LET hit == {i \in DOMAIN ts :
                   ts[i].title \in input.subs \/ ts[i].title \in input.inside}
    IN  IF hit = {} THEN 0 ELSE CHOOSE i \in hit : \A j \in hit : i <= j

_extract_task_updates(input) ==
    [priority |-> PriorityOf(input),
     status |->
        IF input.subs \cap {"start", "begin"} # {} THEN "in_progress"
        ELSE IF "complete" \in input.subs THEN "completed"
        ELSE IF input.subs \cap {"pause", "hold"} # {} THEN "paused"
        ELSE "None"]

\* what a flow gives process_request: the result map, the task store after
\* it, whether create_task stored a knowledge item, and the exception if any
Flow(message, actions, ts, knowledge) ==
    [raised |-> "None", message |-> message, actions |-> actions,
     suggestions |-> <<"suggestion">>, tasks |-> ts, knowledge |-> knowledge]

\* a variant without the try/except of the create flow: the vendor failure
\* leaves the handler (excluded by C2)
_create_task_from_input_reraising(ts, llm, task_id) ==
    IF llm = "json"
    THEN Flow("Created task", <<"task_created">>,
              StoreTask(ts, Task(task_id, JsonTaskInfo.title,
                                 JsonTaskInfo.priority, None)), TRUE)
    ELSE [Flow("None", <<>>, ts, FALSE) EXCEPT !.raised = "LLMError"]

_create_task_from_input(ts, llm, task_id) ==
    IF llm = "json"
    THEN Flow("Created task", <<"task_created">>,
              StoreTask(ts, Task(task_id, JsonTaskInfo.title,
                                 JsonTaskInfo.priority, None)), TRUE)
    ELSE Flow("Failed to create task", <<>>, ts, FALSE)

_list_tasks(ts) == Flow("Task List", <<"tasks_listed">>, ts, FALSE)

_update_task_from_input(ts, input) ==
    LET i == _identify_task_from_input(ts, input)
        up == _extract_task_updates(input)
    IN  IF i = 0 THEN Flow("Could not identify task to update", <<>>, ts, FALSE)
        ELSE Flow("Updated task", <<"task_updated">>,
                  [ts EXCEPT ![i].priority =
                                 IF up.priority # "None" THEN up.priority ELSE @,
                             ![i].status =
                                 IF up.status # "None" THEN up.status ELSE @],
                  FALSE)

_complete_task_from_input(ts, input) ==
    LET i == _identify_task_from_input(ts, input)
    IN  IF i = 0 THEN Flow("Could not identify task to complete", <<>>, ts, FALSE)
        ELSE Flow("Completed task", <<"task_completed">>,
                  TasksAfterComplete(ts, ts[i].id, task_day), FALSE)

_general_task_assistance(ts, llm) ==
    IF llm = "raise" THEN Flow("How can I help you with tasks?", <<>>, ts, FALSE)
    ELSE Flow("advice", <<"general_assistance">>, ts, FALSE)

\* TaskManager.process_request; task_id is the uuid create_task would draw
process_request(ts, input, llm, task_id) ==
    LET action == _analyze_task_intent(input).action
    IN  CASE action = "create" -> _create_task_from_input(ts, llm, task_id)
          [] action = "list" -> _list_tasks(ts)
          [] action = "update" -> _update_task_from_input(ts, input)
          [] action = "complete" -> _complete_task_from_input(ts, input)
          [] action = "delete" ->
                 [Flow("None", <<>>, ts, FALSE) EXCEPT !.raised = "AttributeError"]
          [] OTHER -> _general_task_assistance(ts, llm)

---------------------------------------------------------------------------
(* modules/communication.py: CommunicationModule                           *)

Templates ==
    << [template_id |-> "email_formal_request", type |-> "email", tone |-> "formal"],
       [template_id |-> "email_thank_you", type |-> "email", tone |-> "professional"],
       [template_id |-> "chat_status_update", type |-> "chat", tone |-> "casual"] >>

_analyze_communication_intent(input) ==
    [type |->
        IF input.subs \cap {"ja_meeru", "email", "ja_renraku", "ja_soushin"} # {}
            THEN "email"
        ELSE IF input.subs \cap {"ja_chatto", "chat", "ja_messeeji", "slack"} # {}
            THEN "chat"
        ELSE IF input.subs \cap {"ja_memo", "memo", "ja_kiroku", "ja_hikae"} # {}
            THEN "memo"
        ELSE IF input.subs \cap {"ja_houkoku", "ja_repooto", "report"} # {}
            THEN "report"
        ELSE IF input.subs \cap {"ja_teian", "proposal", "ja_kikaku"} # {}
            THEN "proposal"
        ELSE "email",
     tone |->
        IF input.subs \cap {"ja_seishiki", "formal", "ja_teinei", "ja_foomaru"} # {}
            THEN "formal"
        ELSE IF input.subs \cap {"ja_kajuaru", "casual", "ja_kigaru", "ja_furanku"} # {}
            THEN "casual"
        ELSE IF input.subs \cap {"ja_furendorii", "friendly", "ja_shitashimi"} # {}
            THEN "friendly"
        ELSE IF input.subs \cap {"ja_kanketsu", "concise", "ja_mijikaku", "ja_youten"} # {}
            THEN "concise"
        ELSE "professional",
     use_template |->
        input.subs \cap {"ja_tenpureeto", "ja_teikei", "ja_foomatto", "ja_hinagata"} # {}]

\* what generate_draft returns: the content, the confidence the result map
\* carries (0: none), the template usage counts after it
Draft(content, confidence, usage) ==
    [content |-> content, confidence |-> confidence, usage |-> usage]

_generate_with_llm(usage, llm) ==
    IF llm = "raise" THEN Draft("draft generation failed", 0, usage)
    ELSE Draft("llm draft", LLMConfidence, usage)

\* the placeholder extraction catches every failure of its own LLM call and
\* always returns one value per placeholder, so format() cannot miss a key
_generate_from_template(usage, analysis, llm) ==
    LET suitable == {i \in DOMAIN Templates :
                        /\ Templates[i].type = analysis.type
                        /\ Templates[i].tone = analysis.tone}
        sel == CHOOSE i \in suitable :
                   /\ \A j \in suitable :
                          usage[Templates[j].template_id]
                              <= usage[Templates[i].template_id]
                   /\ \A j \in suitable :
                          usage[Templates[j].template_id]
                              = usage[Templates[i].template_id] => i <= j
    IN  IF suitable = {} THEN _generate_with_llm(usage, llm)
        ELSE Draft("template draft", 9,
                   [usage EXCEPT ![Templates[sel].template_id] = @ + 1])

generate_draft(usage, input, llm) ==
    LET analysis == _analyze_communication_intent(input)
    IN  IF analysis.use_template
        THEN _generate_from_template(usage, analysis, llm)
        ELSE _generate_with_llm(usage, llm)

---------------------------------------------------------------------------
(* core/agent.py: PersonalAIAgent                                          *)

AgentResponse(content, confidence, sources, actions, suggestions, module) ==
    [content |-> content, confidence |-> confidence, sources |-> sources,
     actions_taken |-> actions, suggestions |-> suggestions,
     error |-> "None", module |-> module]

\* the AgentResponse of process_input's except branch
ErrorResponse(e) ==
    [content |-> "apology", confidence |-> 0, sources |-> <<>>,
     actions_taken |-> <<>>, suggestions |-> <<"retry">>,
     error |-> e, module |-> "None"]

intent_order == <<"task", "email", "search", "question", "analysis">>

intent_mapping ==
    [t \in {"task", "email", "search", "question", "analysis"} |->
        CASE t = "task" -> {"ja_tasuku", "todo", "ja_yarukoto", "ja_yotei", "ja_sukejuuru"}
          [] t = "email" -> {"ja_meeru", "email", "ja_renraku", "ja_henshin", "draft"}
          [] t = "search" -> {"ja_kensaku", "ja_shirabete", "ja_sagashite", "ja_jouhou", "web"}
          [] t = "question" -> {"ja_shitsumon", "ja_oshiete", "ja_dou", "ja_naze", "?", "zenkaku_?"}
          [] t = "analysis" -> {"ja_bunseki", "ja_toukei", "ja_deeta", "ja_keikou", "ja_pataan"}]

\* intent["primary"] of _analyze_intent
_analyze_intent(input) ==
    LET score == [t \in DOMAIN intent_mapping |-> Hits(input, intent_mapping[t])]
    IN  IF \E t \in DOMAIN score : score[t] > 0
        THEN FirstMax(intent_order, score)
        ELSE "general"

\* what a handler gives _route_to_module: the exception it lets through or
\* the response, and the module state it leaves
Routed(raised, response, ts, usage, knowledge) ==
    [raised |-> raised, response |-> response, tasks |-> ts,
     usage |-> usage, knowledge |-> knowledge]

_handle_task_intent(input, llm, task_id) ==
    LET r == process_request(tasks, input, llm, task_id)
    IN  Routed(r.raised,
               AgentResponse(r.message, 8, <<"TaskManager">>, r.actions,
                             r.suggestions, "task_manager"),
               r.tasks, template_usage, r.knowledge)

_handle_communication_intent(input, llm) ==
    LET d == generate_draft(template_usage, input, llm)
    IN  Routed("None",
               AgentResponse(d.content,
                             IF d.confidence = 0 THEN 8 ELSE d.confidence,
                             <<"CommunicationModule">>, <<"draft_generated">>,
                             <<"suggestion">>, "communication"),
               tasks, d.usage, FALSE)

\* a variant that swallows the vendor failure and answers as if the call
\* had succeeded (excluded by C3)
_handle_general_intent_swallowing(llm) ==
    Routed("None",
           AgentResponse("llm content", LLMConfidence, <<"LLM">>,
                         <<"general_response">>, <<>>, "general"),
           tasks, template_usage, FALSE)

_handle_general_intent(llm) ==
    Routed(IF llm = "raise" THEN "LLMError" ELSE "None",
           AgentResponse("llm content", LLMConfidence, <<"LLM">>,
                         <<"general_response">>, <<>>, "general"),
           tasks, template_usage, FALSE)

_route_to_module(primary, input, llm, task_id) ==
    CASE primary = "task" -> _handle_task_intent(input, llm, task_id)
      [] primary = "email" -> _handle_communication_intent(input, llm)
      [] primary = "search" ->
             Routed("None",
                    AgentResponse("summary", 7, <<"example.com">>,
                                  <<"web_search", "content_summarization">>,
                                  <<"suggestion">>, "web_scraper"),
                    tasks, template_usage, FALSE)
      [] primary = "question" ->
             Routed("None",
                    AgentResponse("answer", 8, <<"knowledge_base">>,
                                  <<"knowledge_retrieval",
                                  "answer_generation">>,
                                  <<"suggestion">>, "qa_system"),
                    tasks, template_usage, FALSE)
      [] primary = "analysis" ->
             Routed("None",
                    AgentResponse("insights", 7, <<"LifeAnalytics">>,
                                  <<"data_analysis", "insight_generation">>,
                                  <<"suggestion">>, "life_analytics"),
                    tasks, template_usage, FALSE)
      [] OTHER -> _handle_general_intent(llm)

\* the steps of process_input an exception is injected into; "none": no
\* injected exception
Faults == {"none", "initialize", "analyze_intent", "store_interaction",
           "store_learning_data"}

\* the environment of one process_input call: what the vendor call does
\* (it raises, or answers with the JSON the prompt asks for) and the
\* injected exception, one thing going wrong per call
Environments ==
    {<<llm, "none">> : llm \in {"raise", "json"}}
        \cup {<<"json", fault>> : fault \in Faults}

\* the inputs the agent is driven with
AgentInputs ==
    { InputUrgentCreateJa, InputUrgentCreateEn, InputEmail, InputEmailTemplate,
      InputGeneral, InputNone }

\* settings.agent.learning_enabled is set when the configuration is loaded,
\* before the agent is used (Settings.load, Settings._update_from_dict)
set_learning_enabled(b) ==
    /\ turns = 0 /\ ~is_running /\ sessions = <<>>
    /\ UNCHANGED serviceVars
    /\ learning_enabled' = b
    /\ UNCHANGED <<ctxVars, memVars, modVars, is_running, current_session_id,
                   last_call, outcome, turns, error_log>>

\* what a call of initialize() that succeeds does: memory.start_session()
\* and the two assignments
InitializeRuns ==
    /\ UNCHANGED serviceVars
    /\ next_uuid' = next_uuid + 1
    /\ sessions' = Append(sessions, SessionData(next_uuid + 1))
    /\ short_term_memory' = <<>>
    /\ interaction_log' = <<>>
    /\ current_session_id' = next_uuid + 1
    /\ is_running' = TRUE
    /\ UNCHANGED <<memory_items, mem_day, max_memory_items, mem_last, ctxVars,
                   modVars, learning_enabled,
                   last_call, outcome, turns, error_log>>

initialize ==
    /\ Len(sessions) < MaxSessions
    /\ InitializeRuns

\* initialize() called once more on a running agent
initialize_again ==
    /\ is_running
    /\ Len(sessions) < MaxSessions + 1
    /\ InitializeRuns

process_input(input, llm, fault) ==
    /\ turns < MaxTurns
    /\ (is_running \/ Len(sessions) < MaxSessions)
    /\ turns' = turns + 1
    /\ last_call' = [input |-> input, llm |-> llm, fault |-> fault,
                     was_running |-> is_running]
    /\ UNCHANGED <<learning_enabled, mem_day, max_memory_items, mem_last,
                   serviceVars>>
    /\ IF ~is_running /\ fault = "initialize"
       THEN \* self.initialize() re-raises, outside the try block
            /\ outcome' = [raised |-> TRUE, response |-> ErrorResponse("None")]
            /\ UNCHANGED <<ctxVars, memory_items, sessions, short_term_memory,
                           next_uuid, interaction_log, modVars, is_running,
                           current_session_id, error_log>>
       ELSE \E u0 \in {IF is_running THEN next_uuid ELSE next_uuid + 1},
               ctx \in {ContextAfterUpdate(input, "none")} :
            \E routed \in {_route_to_module(_analyze_intent(input), input,
                                            llm, u0 + 1)} :
            \* create_task drew the task id and store_knowledge an id
            \E u1 \in {IF routed.knowledge THEN u0 + 2 ELSE u0} :
            \E m1 \in {IF routed.knowledge
                       THEN _store_memory_item(memory_items,
                                MemoryItem(u1, "knowledge",
                                    _calculate_importance(20, "knowledge",
                                                          NoMetadata)))
                       ELSE memory_items} :
            \E m2 \in {_store_memory_item(m1,
                           MemoryItem(u1 + 1, "interaction",
                               _calculate_importance(500, "interaction",
                                                     NoMetadata)))} :
            \E stage \in {
                    IF ctx.raised THEN "context"
                    ELSE IF fault = "analyze_intent" THEN "intent"
                    ELSE IF routed.raised # "None" THEN "route"
                    ELSE IF fault = "store_interaction" THEN "store"
                    ELSE IF learning_enabled /\ fault = "store_learning_data"
                        THEN "learning"
                    ELSE IF learning_enabled THEN "learned"
                    ELSE "stored"} :
                /\ is_running' = TRUE
                /\ current_session_id' =
                       IF is_running THEN current_session_id ELSE next_uuid + 1
                /\ sessions' = IF is_running THEN sessions
                               ELSE Append(sessions,
                               SessionData(next_uuid + 1))
                /\ context_history' = ctx.history
                /\ user_state' = ctx.state
                /\ analysis_cache' = ctx.cache
                /\ ctx_clock' = ctx_clock + 1
                /\ tasks' = IF stage \in {"context", "intent"} THEN tasks
                            ELSE routed.tasks
                /\ template_usage' =
                       IF stage \in {"context", "intent"} THEN template_usage
                       ELSE routed.usage
                /\ memory_items' =
                       CASE stage = "learned" ->
                                _store_memory_item(m2,
                                    MemoryItem(u1 + 2, "learning",
                                        _calculate_importance(500, "learning",
                                            [confidence |->
                                                 routed.response.confidence,
                                             user_feedback |-> "none"])))
                         [] stage \in {"learning", "stored"} -> m2
                         [] stage = "store" -> m1
                         [] OTHER -> memory_items
                /\ short_term_memory' =
                       IF stage \in {"learning", "learned", "stored"}
                       THEN ShortTermAfter(
                                IF is_running THEN short_term_memory ELSE <<>>,
                                u1 + 1)
                       ELSE IF is_running THEN short_term_memory ELSE <<>>
                /\ interaction_log' =
                       IF stage \in {"learning", "learned", "stored"}
                       THEN Append(IF is_running THEN interaction_log ELSE <<>>,
                                   u1 + 1)
                       ELSE IF is_running THEN interaction_log ELSE <<>>
                /\ next_uuid' =
                       CASE stage = "learned" -> u1 + 2
                         [] stage \in {"learning", "stored"} -> u1 + 1
                         [] stage = "store" -> u1
                         [] OTHER -> u0
                /\ \E e \in {CASE stage = "context" -> "AttributeError"
                               [] stage = "intent" -> "IntentError"
                               [] stage = "route" -> routed.raised
                               [] stage = "store" -> "StoreError"
                               [] stage = "learning" -> "LearningError"
                               [] OTHER -> "None"} :
                       /\ outcome' =
                              [raised |-> FALSE,
                               response |-> IF e # "None" THEN ErrorResponse(e)
                                            ELSE routed.response]
                       /\ error_log' = IF e # "None" THEN Append(error_log, e)
                                       ELSE error_log

shutdown ==
    /\ is_running
    /\ UNCHANGED serviceVars
    /\ sessions' = IF current_session_id # 0
                   THEN SessionsAfterEnd(sessions, current_session_id)
                   ELSE sessions
    /\ is_running' = FALSE
    /\ UNCHANGED <<memory_items, short_term_memory, next_uuid, mem_day,
                   max_memory_items, mem_last,
                   interaction_log,
                   ctxVars, modVars, current_session_id, learning_enabled,
                   last_call, outcome, turns, error_log>>

NoCall == [input |-> InputGeneral, llm |-> "text", fault |-> "none",
           was_running |-> FALSE]

InitAgent ==
    /\ tasks = <<>>
    /\ template_usage = [i \in {Templates[j].template_id : j \in DOMAIN Templates} |-> 0]
    /\ is_running = FALSE
    /\ current_session_id = 0
    /\ learning_enabled = TRUE
    /\ last_call = NoCall
    /\ outcome = [raised |-> FALSE, response |-> ErrorResponse("None")]
    /\ turns = 0
    /\ error_log = <<>>

NextAgent ==
    \/ initialize
    \/ \E input \in AgentInputs, env \in Environments :
           process_input(input, env[1], env[2])
    \/ shutdown
    \/ \E b \in BOOLEAN : set_learning_enabled(b)

\* the calls of one agent, a repeated initialize() included
NextAgentLifecycle ==
    \/ initialize
    \/ initialize_again
    \/ \E input \in AgentInputs, env \in Environments :
           process_input(input, env[1], env[2])
    \/ shutdown

---------------------------------------------------------------------------
(* security/auth.py: AuthenticationManager                                 *)

\* SecurityConfig.max_login_attempts
max_login_attempts == 5

\* timedelta(minutes=15) of the rate limiter
window == 15

Usernames == {"alice"}

\* "None": no ip_address given
IpAddresses == {"None", "10.0.0.1"}

\* key = ip_address or username
RateLimitKey(username, ip_address) ==
    IF ip_address # "None" THEN ip_address ELSE username

\* a rate limiter that still counts an attempt made exactly `window'
\* minutes ago (excluded by C7)
_check_rate_limit_closed_window(attempts, username, ip_address, now) ==
    LET key == RateLimitKey(username, ip_address)
    IN  IF key \notin DOMAIN attempts THEN TRUE
        ELSE Cardinality({i \in DOMAIN attempts[key] :
                              now - attempts[key][i] <= window})
                 < max_login_attempts

_check_rate_limit(attempts, username, ip_address, now) ==
    LET key == RateLimitKey(username, ip_address)
    IN  IF key \notin DOMAIN attempts THEN TRUE
        ELSE Cardinality({i \in DOMAIN attempts[key] :
                              now - attempts[key][i] < window})
                 < max_login_attempts

\* failed_attempts after _record_failed_attempt
_record_failed_attempt(attempts, username, ip_address, now) ==
    LET key == RateLimitKey(username, ip_address)
        added == Append(IF key \in DOMAIN attempts THEN attempts[key] ELSE <<>>,
                        now)
        kept == SubSeqIdx(added, {i \in DOMAIN added : now - added[i] < window})
    IN  [k \in DOMAIN attempts \cup {key} |->
            IF k = key THEN kept ELSE attempts[k]]

\* the placeholder lookup: no user is ever found
_find_user_by_username(username) == "None"

authenticate_user(username, password, ip_address) ==
    /\ auth_calls < MaxLoginCalls
    /\ auth_calls' = auth_calls + 1
    /\ IF ~_check_rate_limit(failed_attempts, username, ip_address, auth_now)
       THEN /\ auth_last' = [username |-> username, ip_address |-> ip_address,
                             limited |-> TRUE, looked_up |-> FALSE,
                             result |-> "None"]
            /\ UNCHANGED <<failed_attempts, failure_log>>
       ELSE \* the lookup returns None, so the password is never compared
            /\ _find_user_by_username(username) = "None"
            /\ failed_attempts' = _record_failed_attempt(failed_attempts,
                                      username, ip_address, auth_now)
            /\ failure_log' = Append(failure_log,
                                  [key |-> RateLimitKey(username, ip_address),
                                   time |-> auth_now])
            /\ auth_last' = [username |-> username, ip_address |-> ip_address,
                             limited |-> FALSE, looked_up |-> TRUE,
                             result |-> "None"]
    /\ UNCHANGED <<auth_now, authzVars, cacheVars, coreVars, restVars>>

\* five minutes pass
AuthTick ==
    /\ auth_now < 5 * MaxAuthTicks
    /\ auth_now' = auth_now + 5
    /\ UNCHANGED <<failed_attempts, auth_calls, auth_last, failure_log,
                   authzVars, cacheVars, coreVars, restVars>>

InitAuth ==
    /\ failed_attempts = <<>>
    /\ auth_now = 0
    /\ auth_calls = 0
    /\ auth_last = [username |-> "alice", ip_address |-> "None",
                    limited |-> FALSE, looked_up |-> FALSE, result |-> "None"]
    /\ failure_log = <<>>

NextAuth ==
    \/ \E username \in Usernames, ip_address \in IpAddresses :
           authenticate_user(username, "secret", ip_address)
    \/ AuthTick

\* -- tokens and sessions ------------------------------------------------

access_token_expire == jwt_expire_minutes

\* the User create_user returns; the user_id is a secrets.token_urlsafe
\* draw, one per user
create_user(username) ==
    [user_id |-> <<"user_id", username>>, username |-> username,
     is_active |-> TRUE]

SessionUsers == {create_user("alice"), create_user("bob")}

\* a JWT: its payload and the key its signature was made with
Jwt(payload, key) == [payload |-> payload, key |-> key]

\* jwt.decode with the manager's secret_key, then the expiry check; a token
\* is past its expiry from the minute exp on
verify_token(token, now) ==
    IF token.key # "secret_key"
    THEN None
    ELSE IF token.payload.exp <= now THEN None ELSE Some(token.payload)

create_session(sessions_, session_id, user, now) ==
    [k \in DOMAIN sessions_ \cup {session_id} |->
        IF k = session_id
        THEN [session_id |-> session_id, user_id |-> user.user_id,
              created_at |-> now, expires_at |-> now + access_token_expire,
              is_active |-> TRUE]
        ELSE sessions_[k]]

get_active_session(sessions_, session_id, now) ==
    IF /\ session_id \in DOMAIN sessions_
       /\ sessions_[session_id].is_active
       /\ sessions_[session_id].expires_at > now
    THEN Some(sessions_[session_id])
    ELSE None

SessionCall(op, arg, result) == [op |-> op, arg |-> arg, result |-> result]

_generate_access_token(user) ==
    /\ session_ids < MaxSessionIds
    /\ session_ids' = session_ids + 1
    /\ LET session_id == session_ids + 1
           token == Jwt([user_id |-> user.user_id,
                         username |-> user.username,
                         session_id |-> session_id, type |-> "access",
                         iat |-> session_now,
                         exp |-> session_now + access_token_expire],
                        "secret_key")
       IN  /\ active_sessions' = create_session(active_sessions, session_id,
                                                user, session_now)
           /\ issued' = issued \cup {token}
           /\ session_last' = SessionCall("_generate_access_token",
                                          Some(token), Some(token))
    /\ UNCHANGED <<session_now, logged_out, nonSessionVars>>

_generate_refresh_token(user) ==
    /\ LET token == Jwt([user_id |-> user.user_id,
                         username |-> user.username, type |-> "refresh",
                         iat |-> session_now,
                         exp |-> session_now + refresh_token_expire],
                        "secret_key")
       IN  /\ token \notin issued
           /\ Cardinality(issued) < MaxTokens
           /\ issued' = issued \cup {token}
           /\ session_last' = SessionCall("_generate_refresh_token",
                                          Some(token), Some(token))
    /\ UNCHANGED <<active_sessions, session_ids, session_now, logged_out,
                   nonSessionVars>>

\* the tokens a caller can present: the ones handed out, and the same
\* payloads signed with another key
Presentable == issued \cup {Jwt(t.payload, "other_key") : t \in issued}

verify_token_call(token) ==
    /\ session_last' = SessionCall("verify_token", Some(token),
                                   verify_token(token, session_now))
    /\ UNCHANGED <<active_sessions, session_ids, issued, session_now,
                   logged_out, nonSessionVars>>

logout_user(token) ==
    LET payload == verify_token(token, session_now)
        session_id == IF "session_id" \in DOMAIN payload[1]
                      THEN Some(payload[1].session_id)
                      ELSE None
    IN  IF payload = None
        THEN /\ session_last' = SessionCall("logout_user", Some(token),
                                            Some(FALSE))
             /\ UNCHANGED <<active_sessions, session_ids, issued,
                            session_now, logged_out, nonSessionVars>>
        ELSE IF session_id # None /\ session_id[1] \in DOMAIN active_sessions
        THEN /\ active_sessions' =
                    [active_sessions EXCEPT ![session_id[1]].is_active = FALSE]
             /\ logged_out' = logged_out \cup {token}
             /\ session_last' = SessionCall("logout_user", Some(token),
                                            Some(TRUE))
             /\ UNCHANGED <<session_ids, issued, session_now, nonSessionVars>>
        ELSE /\ session_last' = SessionCall("logout_user", Some(token),
                                            Some(FALSE))
             /\ UNCHANGED <<active_sessions, session_ids, issued,
                            session_now, logged_out, nonSessionVars>>

get_active_session_call(session_id) ==
    /\ session_last' = SessionCall("get_active_session", Some(session_id),
                             get_active_session(active_sessions, session_id,
                                                session_now))
    /\ UNCHANGED <<active_sessions, session_ids, issued, session_now,
                   logged_out, nonSessionVars>>

\* a quarter of an hour passes
SessionTick ==
    /\ session_now < 15 * MaxSessionTicks
    /\ session_now' = session_now + 15
    /\ UNCHANGED <<active_sessions, session_ids, issued, session_last,
                   logged_out, nonSessionVars>>

InitSessions ==
    /\ active_sessions = <<>>
    /\ session_ids = 0
    /\ issued = {}
    /\ session_now = 0
    /\ session_last = SessionCall("none", None, None)
    /\ logged_out = {}

NextSessions ==
    \/ \E user \in SessionUsers : _generate_access_token(user)
    \/ \E user \in SessionUsers : _generate_refresh_token(user)
    \/ \E token \in Presentable : verify_token_call(token)
    \/ \E token \in Presentable : logout_user(token)
    \/ \E session_id \in 1..MaxSessionIds :
           get_active_session_call(session_id)
    \/ SessionTick

---------------------------------------------------------------------------
(* security/auth.py: AuthorizationManager                                  *)

\* the members of Permission the model uses
Permissions == {"read", "write", "admin"}

Resources == {"tasks"}

Users == [is_active : BOOLEAN, permissions : SUBSET Permissions]

\* kwargs.get('current_user') when the caller passed none
NoUser == [is_active |-> FALSE, permissions |-> {"no user"}]

\* a check that looks at the admin permission before the active flag (excluded by C8)
check_permission_admin_first(registry, user, resource, action) ==
    IF "admin" \in user.permissions THEN TRUE
    ELSE IF ~user.is_active THEN FALSE
    ELSE IF resource \in DOMAIN registry /\ action \notin registry[resource]
        THEN TRUE
    ELSE action \in user.permissions

check_permission(registry, user, resource, action) ==
    IF ~user.is_active THEN FALSE
    ELSE IF "admin" \in user.permissions THEN TRUE
    ELSE IF resource \in DOMAIN registry /\ action \notin registry[resource]
        THEN TRUE
    ELSE action \in user.permissions

register_resource(resource, required_permissions) ==
    /\ resource_permissions' =
           [r \in DOMAIN resource_permissions \cup {resource} |->
               IF r = resource THEN required_permissions
               ELSE resource_permissions[r]]
    /\ UNCHANGED <<authz_last, authVars, cacheVars, coreVars, restVars>>

\* a direct call of check_permission
CheckPermissionCall(user, resource, action) ==
    /\ authz_last' = [op |-> "check", user |-> user, resource |-> resource,
                      action |-> action,
                      result |-> check_permission(resource_permissions, user,
                                                  resource, action),
                      invoked |-> FALSE, raised |-> FALSE]
    /\ UNCHANGED <<resource_permissions, authVars, cacheVars, coreVars,
                   restVars>>

\* a call of an operation wrapped by require_permission(resource, action)
require_permission(current_user, resource, action) ==
    /\ LET checked == IF current_user = NoUser THEN FALSE
                      ELSE check_permission(resource_permissions, current_user,
                                            resource, action)
       IN  authz_last' = [op |-> "guard", user |-> current_user,
                          resource |-> resource, action |-> action,
                          result |-> checked,
                          invoked |-> checked, raised |-> ~checked]
    /\ UNCHANGED <<resource_permissions, authVars, cacheVars, coreVars,
                   restVars>>

InitAuthz ==
    /\ resource_permissions = <<>>
    /\ authz_last = [op |-> "none", user |-> NoUser, resource |-> "tasks",
                     action |-> "read", result |-> FALSE, invoked |-> FALSE,
                     raised |-> FALSE]

NextAuthz ==
    \/ \E resource \in Resources, required \in SUBSET Permissions :
           register_resource(resource, required)
    \/ \E user \in Users, resource \in Resources, action \in Permissions :
           CheckPermissionCall(user, resource, action)
    \/ \E user \in Users \cup {NoUser}, resource \in Resources,
          action \in Permissions :
           require_permission(user, resource, action)

---------------------------------------------------------------------------
(* storage/cache.py: CacheManager                                          *)

\* cache keys; a behaviour introduces them in increasing order
CacheKeys == 1..(memory_cache_max_size + 1)

\* the value the n-th call writes: every set writes a value of its own, so
\* that a read of an older value shows
CacheValues == <<"v1", "v2", "v3", "v4", "v5", "v6", "v7", "v8", "v9">>

\* the ttl argument of set; 0: none given
TTLs == {1}

\* the constructor's default
enable_memory_cache == TRUE

CacheItem(key, value, has_expiry, expires_at, now) ==
    [key |-> key, value |-> value, has_expiry |-> has_expiry,
     expires_at |-> expires_at, last_accessed |-> now]

\* an eviction that removes the oldest-inserted quarter, whatever the access
\* times (excluded by C10)
_evict_memory_cache_fifo(cache) ==
    SubSeq(cache, (Len(cache) \div 4) + 1, Len(cache))

_evict_memory_cache(cache) ==
    DropLowest(cache, [i \in DOMAIN cache |-> cache[i].last_accessed],
               Len(cache) \div 4)

\* memory_cache after _set_memory_cache; expires_at = None is has_expiry
\* FALSE
_set_memory_cache(cache, key, value, has_expiry, expires_at, now) ==
    LET base == IF Len(cache) >= memory_cache_max_size
                THEN _evict_memory_cache(cache) ELSE cache
        item == CacheItem(key, value, has_expiry, expires_at, now)
    IN  IF \E i \in DOMAIN base : base[i].key = key
        THEN [i \in DOMAIN base |-> IF base[i].key = key THEN item ELSE base[i]]
        ELSE Append(base, item)

\* what _get_memory_cache returns ("None": nothing) and leaves
_get_memory_cache(cache, key, now) ==
    IF \A i \in DOMAIN cache : cache[i].key # key
    THEN [value |-> "None", cache |-> cache]
    ELSE LET i == CHOOSE j \in DOMAIN cache : cache[j].key = key
         IN  IF cache[i].has_expiry /\ cache[i].expires_at <= now
             THEN [value |-> "None",
                   cache |-> SubSeqIdx(cache, DOMAIN cache \ {i})]
             ELSE [value |-> cache[i].value,
                   cache |-> [cache EXCEPT ![i].last_accessed = now]]

\* redis_client.get(key): the server drops a key ttl seconds after setex
RedisGet(store, key, now) ==
    IF key \in DOMAIN store /\ store[key].expires_at > now
    THEN store[key].value ELSE "None"

set(key, value, ttl) ==
    /\ cache_ops < MaxCacheOps
    /\ key <= Cardinality(DOMAIN written) + 1
    /\ cache_ops' = cache_ops + 1
    /\ \E expires_at \in {cache_now + (IF ttl = 0 THEN default_ttl ELSE ttl)} :
           LET entry == [value |-> value, expires_at |-> expires_at]
           IN  IF redis_client = "connected" /\ ~redis_up
               THEN \* setex raises: the except branch returns False and the
                    \* in-process tier is not reached
                    /\ UNCHANGED <<redis_store, memory_cache, written>>
                    /\ cache_last' = [op |-> "set", key |-> key,
                                      result |-> value, stored |-> FALSE,
                                      ok |-> FALSE, raised |-> FALSE]
               ELSE /\ redis_store' =
                           IF redis_client = "connected"
                           THEN [k \in DOMAIN redis_store \cup {key} |->
                                    IF k = key THEN entry ELSE redis_store[k]]
                           ELSE redis_store
                    /\ memory_cache' =
                           IF enable_memory_cache
                           THEN _set_memory_cache(memory_cache, key, value,
                                                  TRUE, expires_at, cache_now)
                           ELSE memory_cache
                    /\ written' = [k \in DOMAIN written \cup {key} |->
                                      IF k = key THEN entry ELSE written[k]]
                    /\ cache_last' = [op |-> "set", key |-> key,
                                      result |-> value,
                                      stored |-> enable_memory_cache,
                                      ok |-> TRUE, raised |-> FALSE]
    /\ UNCHANGED <<redis_client, redis_up, cache_now, authVars, authzVars,
                   coreVars, restVars>>

get(key) ==
    /\ cache_ops < MaxCacheOps
    /\ key \in DOMAIN written
    /\ cache_ops' = cache_ops + 1
    /\ \E m \in {IF enable_memory_cache
                 THEN _get_memory_cache(memory_cache, key, cache_now)
                 ELSE [value |-> "None", cache |-> memory_cache]},
          redis_value \in {IF redis_client = "connected" /\ redis_up
                           THEN RedisGet(redis_store, key, cache_now)
                           ELSE "None"} :
           \* with the server down redis_client.get raises and the except
           \* branch returns None
           IF m.value # "None"
           THEN /\ memory_cache' = m.cache
                /\ cache_last' = [op |-> "get", key |-> key,
                                  result |-> m.value, stored |-> FALSE,
                                  ok |-> TRUE, raised |-> FALSE]
           ELSE IF redis_value # "None"
           THEN \* the value goes back into the in-process tier, no expiry
                /\ memory_cache' =
                       IF enable_memory_cache
                       THEN _set_memory_cache(m.cache, key, redis_value, FALSE,
                                              0, cache_now)
                       ELSE m.cache
                /\ cache_last' = [op |-> "get", key |-> key,
                                  result |-> redis_value,
                                  stored |-> enable_memory_cache,
                                  ok |-> TRUE, raised |-> FALSE]
           ELSE /\ memory_cache' = m.cache
                /\ cache_last' = [op |-> "get", key |-> key,
                                  result |-> "None", stored |-> FALSE,
                                  ok |-> TRUE, raised |-> FALSE]
    /\ UNCHANGED <<redis_client, redis_up, redis_store, cache_now, written,
                   authVars, authzVars, coreVars, restVars>>

\* memory_cache after the in-process part of exists(), and whether it
\* answered True
ExistsInMemory(cache, key, now) ==
    IF \A i \in DOMAIN cache : cache[i].key # key
    THEN [found |-> FALSE, cache |-> cache]
    ELSE LET i == CHOOSE j \in DOMAIN cache : cache[j].key = key
         IN  IF cache[i].has_expiry /\ cache[i].expires_at <= now
             THEN [found |-> FALSE,
                   cache |-> SubSeqIdx(cache, DOMAIN cache \ {i})]
             ELSE [found |-> TRUE, cache |-> cache]

exists(key) ==
    /\ cache_ops < MaxCacheOps
    /\ key \in DOMAIN written
    /\ cache_ops' = cache_ops + 1
    /\ \E m \in {IF enable_memory_cache
                 THEN ExistsInMemory(memory_cache, key, cache_now)
                 ELSE [found |-> FALSE, cache |-> memory_cache]} :
           /\ memory_cache' = m.cache
           /\ cache_last' =
                  [op |-> "exists", key |-> key, result |-> "None",
                   stored |-> FALSE,
                   \* redis_client.exists raises with the server down: False
                   ok |-> \/ m.found
                          \/ /\ redis_client = "connected" /\ redis_up
                             /\ RedisGet(redis_store, key, cache_now) # "None",
                   raised |-> FALSE]
    /\ UNCHANGED <<redis_client, redis_up, redis_store, cache_now, written,
                   authVars, authzVars, coreVars, restVars>>

delete(key) ==
    /\ cache_ops < MaxCacheOps
    /\ key \in DOMAIN written
    /\ cache_ops' = cache_ops + 1
    /\ IF redis_client = "connected" /\ ~redis_up
       THEN \* redis_client.delete raises: the except branch returns False
            \* and the in-process entry stays
            /\ UNCHANGED <<redis_store, memory_cache>>
            /\ cache_last' = [op |-> "delete", key |-> key, result |-> "None",
                              stored |-> FALSE, ok |-> FALSE, raised |-> FALSE]
       ELSE /\ redis_store' =
                   IF redis_client = "connected"
                   THEN [k \in DOMAIN redis_store \ {key} |-> redis_store[k]]
                   ELSE redis_store
            /\ memory_cache' =
                   IF enable_memory_cache
                   THEN SubSeqIdx(memory_cache,
                                  {i \in DOMAIN memory_cache :
                                      memory_cache[i].key # key})
                   ELSE memory_cache
            /\ cache_last' =
                   [op |-> "delete", key |-> key, result |-> "None",
                    stored |-> FALSE,
                    ok |-> \/ redis_client # "connected"
                           \/ RedisGet(redis_store, key, cache_now) # "None",
                    raised |-> FALSE]
    /\ UNCHANGED <<redis_client, redis_up, cache_now, written, authVars,
                   authzVars, coreVars, restVars>>

\* a second passes
CacheTick ==
    /\ cache_now < MaxCacheTime
    /\ cache_now' = cache_now + 1
    /\ UNCHANGED <<memory_cache, redis_client, redis_up, redis_store,
                   cache_ops, cache_last, written, authVars, authzVars,
                   coreVars, restVars>>

\* CacheManager.initialize() with a Redis URL configured: the client is
\* kept when the server answers the ping, and reset to None when the ping
\* raises; without a URL the client stays None as constructed
cache_initialize ==
    /\ redis_client = "None"
    /\ cache_ops = 0
    /\ redis_client' = IF redis_up THEN "connected" ELSE "None"
    /\ cache_last' = [op |-> "initialize", key |-> 1, result |-> "None",
                      stored |-> FALSE, ok |-> redis_up, raised |-> FALSE]
    /\ UNCHANGED <<memory_cache, redis_up, redis_store, cache_now, cache_ops,
                   written, authVars, authzVars, coreVars, restVars>>

\* the Redis server stops answering (it is not seen to come back)
redis_goes_down ==
    /\ redis_up
    /\ redis_up' = FALSE
    /\ UNCHANGED <<memory_cache, redis_client, redis_store, cache_now,
                   cache_ops, cache_last, written, authVars, authzVars,
                   coreVars, restVars>>

InitCache ==
    /\ memory_cache = <<>>
    /\ redis_client = "None"
    /\ redis_store = <<>>
    /\ cache_now = 0
    /\ cache_ops = 0
    /\ cache_last = [op |-> "none", key |-> 1, result |-> "None",
                     stored |-> FALSE, ok |-> TRUE, raised |-> FALSE]
    /\ written = <<>>
    /\ redis_up = TRUE

NextCache ==
    \/ \E key \in CacheKeys, ttl \in TTLs :
           set(key, CacheValues[cache_ops + 1], ttl)
    \/ \E key \in CacheKeys : get(key)
    \/ CacheTick
    \/ cache_initialize

\* the keys of the behaviours in which the Redis server fails
FaultKeys == 1..2

\* the cache with a Redis server that can stop answering, before or after
\* initialize()
NextCacheFault ==
    \/ \E key \in FaultKeys, ttl \in TTLs :
           set(key, CacheValues[cache_ops + 1], ttl)
    \/ \E key \in FaultKeys : get(key)
    \/ \E key \in FaultKeys : exists(key)
    \/ \E key \in FaultKeys : delete(key)
    \/ cache_initialize
    \/ redis_goes_down

\* the glob patterns get_pattern is called with, each by the set of cache
\* keys it matches: "*" and the name of key 1
Patterns == {FaultKeys, {1}}

\* the orders in which redis_client.keys(pattern) can list the keys
Orders(keys) ==
    {order \in UNION {[1..n -> keys] : n \in {Cardinality(keys)}} :
        \A i, j \in DOMAIN order : order[i] = order[j] => i = j}

\* the value and the in-process tier after self.get(key) with the server
\* answering: the in-process tier is asked first
GetThroughTiers(cache, store, key, now) ==
    LET m == IF enable_memory_cache THEN _get_memory_cache(cache, key, now)
             ELSE [value |-> "None", cache |-> cache]
        redis_value == RedisGet(store, key, now)
    IN  IF m.value # "None" THEN m
        ELSE IF redis_value # "None"
        THEN [value |-> redis_value,
              cache |-> IF enable_memory_cache
                        THEN _set_memory_cache(m.cache, key, redis_value,
                                               FALSE, 0, now)
                        ELSE m.cache]
        ELSE [value |-> "None", cache |-> m.cache]

\* the loop of get_pattern over the keys the server listed
RECURSIVE GetEach(_, _, _, _, _)
GetEach(order, cache, store, now, result) ==
    IF order = <<>> THEN [cache |-> cache, result |-> result]
    ELSE LET g == GetThroughTiers(cache, store, Head(order), now)
         IN  GetEach(Tail(order), g.cache, store, now,
                     IF g.value = "None" THEN result
                     ELSE [k \in DOMAIN result \cup {Head(order)} |->
                              IF k = Head(order) THEN g.value ELSE result[k]])

\* the second loop of get_pattern: the matching in-process entries that are
\* not expired and not in the result yet
MemoryMatches(cache, pattern, now, result) ==
    LET add == {i \in DOMAIN cache :
                   /\ cache[i].key \in pattern
                   /\ cache[i].key \notin DOMAIN result
                   /\ ~cache[i].has_expiry \/ cache[i].expires_at > now}
    IN  [k \in DOMAIN result \cup {cache[i].key : i \in add} |->
            IF k \in DOMAIN result THEN result[k]
            ELSE cache[CHOOSE i \in add : cache[i].key = k].value]

\* get_pattern(pattern); order is the order of redis_client.keys(pattern).
\* With the server down keys() raises and the except branch returns {}
get_pattern(pattern, order) ==
    /\ cache_ops < MaxCacheOps
    /\ cache_ops' = cache_ops + 1
    /\ IF redis_client = "connected" /\ ~redis_up
       THEN /\ memory_cache' = memory_cache
            /\ cache_last' = [op |-> "get_pattern", key |-> 1,
                              result |-> [pattern |-> pattern,
                                          values |-> <<>>],
                              stored |-> FALSE, ok |-> FALSE,
                              raised |-> FALSE]
       ELSE \E r \in {IF redis_client = "connected"
                      THEN GetEach(order, memory_cache, redis_store,
                                   cache_now, <<>>)
                      ELSE [cache |-> memory_cache, result |-> <<>>]} :
            /\ memory_cache' = r.cache
            /\ cache_last' =
                   [op |-> "get_pattern", key |-> 1,
                    result |->
                        [pattern |-> pattern,
                         values |-> IF enable_memory_cache
                                    THEN MemoryMatches(r.cache, pattern,
                                                       cache_now, r.result)
                                    ELSE r.result],
                    stored |-> FALSE, ok |-> TRUE, raised |-> FALSE]
    /\ UNCHANGED <<redis_client, redis_up, redis_store, cache_now, written,
                   authVars, authzVars, coreVars, restVars>>

\* the Redis server is shared: another client sets a key
remote_set(key, value) ==
    /\ cache_ops < MaxCacheOps
    /\ redis_up
    /\ cache_ops' = cache_ops + 1
    /\ redis_store' =
           [k \in DOMAIN redis_store \cup {key} |->
               IF k = key
               THEN [value |-> value, expires_at |-> cache_now + default_ttl]
               ELSE redis_store[k]]
    /\ cache_last' = [op |-> "remote_set", key |-> key, result |-> value,
                      stored |-> FALSE, ok |-> TRUE, raised |-> FALSE]
    /\ UNCHANGED <<memory_cache, redis_client, redis_up, cache_now, written,
                   authVars, authzVars, coreVars, restVars>>

\* the keys of the server that match the pattern and are not expired
RedisKeys(pattern) ==
    {k \in pattern : RedisGet(redis_store, k, cache_now) # "None"}

NextCachePattern ==
    \/ \E key \in FaultKeys, ttl \in TTLs :
           set(key, CacheValues[cache_ops + 1], ttl)
    \/ \E key \in FaultKeys : remote_set(key, CacheValues[cache_ops + 1])
    \/ \E pattern \in Patterns :
           \E order \in Orders(RedisKeys(pattern)) :
               get_pattern(pattern, order)
    \/ CacheTick
    \/ cache_initialize
    \/ redis_goes_down

---------------------------------------------------------------------------
(* storage/backup.py: BackupManager                                        *)

\* the constructor's default
compress == TRUE

\* the configuration file, the SQLite file and the user-data directory
ConfigFile == "app.yaml"

DbFile == "agent.db"

DataDir == "userdata"

TargetNames == {ConfigFile, DbFile, DataDir}

\* a backup id <<type, second>> stands for f"{type}_{now:%Y%m%d_%H%M%S}"
\* backup_path = backup_dir / f"{backup_id}.tar.gz"
BackupPath(backup_id) == <<backup_id, "tar.gz">>

\* a variant in which the archive is written to backup_path itself
ArchivePath_at_backup_path(backup_id) == BackupPath(backup_id)

\* the file shutil.make_archive writes: its base name is
\* backup_path.with_suffix(""), which only drops ".gz", and make_archive
\* appends the extension of the format
ArchivePath(backup_id) ==
    <<backup_id, IF compress THEN "tar.tar.gz" ELSE "tar.tar">>

\* the MD5 digest of a file's bytes
_calculate_checksum(bytes) == <<"md5", bytes>>

_verify_checksum(bytes, expected_checksum) ==
    _calculate_checksum(bytes) = expected_checksum

Metadata(backup_type, config_files, user_data_dirs) ==
    [backup_type |-> backup_type, database_url |-> "sqlite:///agent.db",
     config_files |-> config_files, user_data_dirs |-> user_data_dirs]

\* the archive create_full_backup packs from the targets tg: the database
\* copy is written as database.db (no database.sql is ever written), the
\* configuration files go under config/, the data directories under
\* user_data/; "absent" marks a member the archive does not hold
FullArchive(tg, config_files, user_data_dirs) ==
    [config_dir |-> TRUE,
     config |-> IF ConfigFile \in config_files THEN tg[ConfigFile]
                ELSE "absent",
     root_config |-> "absent",
     database_sql |-> FALSE,
     database_db |-> tg[DbFile],
     user_data_dir |-> user_data_dirs # {},
     user_data |-> IF DataDir \in user_data_dirs THEN tg[DataDir]
                   ELSE "absent",
     metadata |-> Metadata("full", config_files, user_data_dirs),
     bits |-> "original"]

\* the archive create_config_backup packs: the configuration files lie at
\* the root of the archive
ConfigArchive(tg, config_files) ==
    [config_dir |-> FALSE,
     config |-> "absent",
     root_config |-> IF ConfigFile \in config_files THEN tg[ConfigFile]
                     ELSE "absent",
     database_sql |-> FALSE,
     database_db |-> "absent",
     user_data_dir |-> FALSE,
     user_data |-> "absent",
     metadata |-> Metadata("config", config_files, {}),
     bits |-> "original"]

BackupInfo(backup_id, created_at, backup_type, checksum, metadata) ==
    [backup_id |-> backup_id, created_at |-> created_at,
     backup_type |-> backup_type, file_path |-> BackupPath(backup_id),
     checksum |-> checksum, metadata |-> metadata]

WriteFile(disk, path, bytes) ==
    [q \in DOMAIN disk \cup {path} |-> IF q = path THEN bytes ELSE disk[q]]

RemoveFile(disk, path) == [q \in DOMAIN disk \ {path} |-> disk[q]]

\* whether get_backup_info finds an entry, and the first one it finds
HasBackup(history, backup_id) ==
    \E i \in DOMAIN history : history[i].backup_id = backup_id

get_backup_info(history, backup_id) ==
    history[CHOOSE i \in DOMAIN history :
               /\ history[i].backup_id = backup_id
               /\ \A j \in 1..(i - 1) : history[j].backup_id # backup_id]

\* what delete_backup returns and leaves
DeleteBackup(history, disk, backup_id) ==
    IF ~HasBackup(history, backup_id)
    THEN [ok |-> FALSE, history |-> history, disk |-> disk]
    ELSE [ok |-> TRUE,
          history |-> SubSeqIdx(history,
                                {i \in DOMAIN history :
                                    history[i].backup_id # backup_id}),
          disk |-> RemoveFile(disk,
                              get_backup_info(history, backup_id).file_path)]

RECURSIVE DeleteAll(_, _, _)
DeleteAll(history, disk, backups_to_delete) ==
    IF backups_to_delete = <<>> THEN [history |-> history, disk |-> disk]
    ELSE LET d == DeleteBackup(history, disk,
                               Head(backups_to_delete).backup_id)
         IN  DeleteAll(d.history, d.disk, Tail(backups_to_delete))

\* history and disk after _cleanup_old_backups; sorted_backups[:-max_backups]
\* is empty when max_backups is 0
CleanupOldBackups(history, disk, max) ==
    IF Len(history) <= max
    THEN [history |-> history, disk |-> disk]
    ELSE LET keys == [i \in DOMAIN history |-> history[i].created_at]
             n == IF max = 0 THEN 0 ELSE Len(history) - max
             backups_to_delete ==
                 SubSeqIdx(history,
                           {i \in DOMAIN history : StableRank(keys, i) < n})
         IN  DeleteAll(history, disk, backups_to_delete)

_cleanup_old_backups(history, disk) ==
    CleanupOldBackups(history, disk, max_backups)

\* the targets as they were when the backups of an earlier run were made
OldTargets ==
    [t \in TargetNames |-> CASE t = ConfigFile -> "config v0"
                             [] t = DbFile -> "db v0"
                             [] t = DataDir -> "data v0"]

\* the backup_dir an earlier run can have left: none, or a history file
\* of three backups with their archives
OldFull(second) ==
    BackupInfo(<<"full", second>>, second, "full",
               _calculate_checksum(FullArchive(OldTargets, {ConfigFile},
                                               {DataDir})),
               Metadata("full", {ConfigFile}, {DataDir}))

OldConfig(second) ==
    BackupInfo(<<"config", second>>, second, "config",
               _calculate_checksum(ConfigArchive(OldTargets, {ConfigFile})),
               Metadata("config", {ConfigFile}, {}))

OldHistory == <<OldFull(1), OldConfig(2), OldFull(3)>>

OldDisk ==
    [q \in {OldHistory[i].file_path : i \in DOMAIN OldHistory} |->
        IF q[1][1] = "full"
        THEN FullArchive(OldTargets, {ConfigFile}, {DataDir})
        ELSE ConfigArchive(OldTargets, {ConfigFile})]

BackupCall(op, backup_id, restore_config, result, exc) ==
    [op |-> op, backup_id |-> backup_id, restore_config |-> restore_config,
     result |-> result, exc |-> exc]

\* BackupManager.initialize() on a backup_dir that holds the history file of
\* an earlier run (old) or none
backup_initialize(old) ==
    /\ backup_calls = 0
    /\ backup_last.op = "none"
    /\ \E loaded \in {IF old THEN [history |-> OldHistory, disk |-> OldDisk]
                      ELSE [history |-> <<>>, disk |-> backup_disk]} :
       \E c \in {_cleanup_old_backups(loaded.history, loaded.disk)} :
           /\ backup_history' = c.history
           /\ backup_disk' = c.disk
    /\ backup_last' = BackupCall("initialize", <<"none", 0>>, FALSE, "None", "None")
    /\ UNCHANGED <<targets, aside, backup_now, backup_calls, created,
                   settledVars, afterBackupVars>>

\* the history files initialize() can find: the backups of an earlier
\* run, oldest first up to any length, or newest first
LoadedHistories ==
    {SubSeq(OldHistory, 1, n) : n \in 0..Len(OldHistory)}
        \cup {[i \in DOMAIN OldHistory |->
                  OldHistory[Len(OldHistory) + 1 - i]]}

\* the archives of a loaded history
DiskOf(history) ==
    [q \in {history[i].file_path : i \in DOMAIN history} |-> OldDisk[q]]

\* BackupManager(max_backups = max).initialize() on a backup_dir that holds
\* the history file `loaded' and its archives
backup_initialize_configured(loaded, max) ==
    /\ backup_calls = 0
    /\ backup_last.op = "none"
    /\ \E c \in {CleanupOldBackups(loaded, DiskOf(loaded), max)} :
           /\ backup_history' = c.history
           /\ backup_disk' = c.disk
    /\ backup_last' = BackupCall("initialize", <<"none", 0>>, FALSE, "None", "None")
    /\ backup_setup' = [max_backups |-> max, loaded |-> loaded]
    /\ UNCHANGED <<targets, aside, backup_now, backup_calls, created,
                   settledVars, taskOpVars, privacyVars, dbVars, cliVars,
                   trend_last, sessionVars, sweepVars>>

\* the shared end of create_full_backup and create_config_backup: the
\* archive is written, then the checksum is taken of backup_path; when that
\* file does not exist the except branch re-raises and the history is left
\* as it was
CreateBackup(backup_type, archive) ==
    LET backup_id == <<backup_type, backup_now>>
        disk == WriteFile(backup_disk, ArchivePath(backup_id), archive)
    IN  /\ backup_calls' = backup_calls + 1
        /\ created' = Append(created, [backup_id |-> backup_id,
                                       targets |-> targets])
        /\ IF BackupPath(backup_id) \in DOMAIN disk
           THEN /\ backup_history' =
                       Append(backup_history,
                              BackupInfo(backup_id, backup_now, backup_type,
                                         _calculate_checksum(
                                             disk[BackupPath(backup_id)]),
                                         archive.metadata))
                /\ backup_disk' = disk
                /\ backup_last' = BackupCall("create", backup_id, FALSE,
                                             "BackupInfo", "None")
           ELSE /\ backup_history' = backup_history
                /\ backup_disk' = disk
                /\ backup_last' = BackupCall("create", backup_id, FALSE,
                                             "raised", "FileNotFoundError")
        /\ UNCHANGED <<targets, aside, backup_now, settledVars, afterBackupVars>>

create_full_backup(config_files, user_data_dirs) ==
    /\ backup_calls < MaxBackupCalls
    /\ CreateBackup("full",
                    FullArchive(targets, config_files, user_data_dirs))

create_config_backup(config_files) ==
    /\ backup_calls < MaxBackupCalls
    /\ CreateBackup("config", ConfigArchive(targets, config_files))

\* targets and aside after _restore_database: restore_backup calls it only
\* when the archive holds database.sql, and it copies database.db
_restore_database(st, archive) ==
    IF archive.database_db # "absent"
    THEN [st EXCEPT !.targets[DbFile] = archive.database_db]
    ELSE st

\* targets and aside after _restore_config_files: the current file is
\* copied aside, then overwritten
_restore_config_files(st, archive) ==
    IF ConfigFile \in archive.metadata.config_files
       /\ archive.config # "absent"
    THEN [targets |-> [st.targets EXCEPT ![ConfigFile] = archive.config],
          aside |-> IF st.targets[ConfigFile] # "absent"
                    THEN st.aside \cup {<<ConfigFile, st.targets[ConfigFile]>>}
                    ELSE st.aside]
    ELSE st

\* targets and aside after _restore_user_data: the current directory is
\* moved aside, then the backup is copied
_restore_user_data(st, archive) ==
    IF DataDir \in archive.metadata.user_data_dirs
       /\ archive.user_data # "absent"
    THEN [targets |-> [st.targets EXCEPT ![DataDir] = archive.user_data],
          aside |-> IF st.targets[DataDir] # "absent"
                    THEN st.aside \cup {<<DataDir, st.targets[DataDir]>>}
                    ELSE st.aside]
    ELSE st

\* restore_dir is first assigned after the checksum verification; the
\* except branch reads it, so a failure raised before that point leaves the
\* handler as an UnboundLocalError
restore_backup(backup_id, restore_database, restore_config, restore_user_data) ==
    /\ backup_calls < MaxBackupCalls
    /\ backup_calls' = backup_calls + 1
    /\ IF \/ ~HasBackup(backup_history, backup_id)
          \/ get_backup_info(backup_history, backup_id).file_path
                 \notin DOMAIN backup_disk
          \/ ~_verify_checksum(
                  backup_disk[get_backup_info(backup_history,
                                              backup_id).file_path],
                  get_backup_info(backup_history, backup_id).checksum)
       THEN /\ backup_last' = BackupCall("restore", backup_id, restore_config,
                                         "raised", "UnboundLocalError")
            /\ UNCHANGED <<targets, aside>>
       ELSE \E archive \in {backup_disk[get_backup_info(backup_history,
                                                        backup_id).file_path]} :
            \E s0 \in {[targets |-> targets, aside |-> aside]} :
            \E s1 \in {IF restore_database /\ archive.database_sql
                       THEN _restore_database(s0, archive) ELSE s0} :
            \E s2 \in {IF restore_config /\ archive.config_dir
                       THEN _restore_config_files(s1, archive) ELSE s1} :
            \E s3 \in {IF restore_user_data /\ archive.user_data_dir
                       THEN _restore_user_data(s2, archive) ELSE s2} :
                /\ targets' = s3.targets
                /\ aside' = s3.aside
                /\ backup_last' = BackupCall("restore", backup_id,
                                             restore_config, "True", "None")
    /\ UNCHANGED <<backup_history, backup_disk, backup_now, created,
                   settledVars, afterBackupVars>>

delete_backup(backup_id) ==
    /\ backup_calls < MaxBackupCalls
    /\ backup_calls' = backup_calls + 1
    /\ \E d \in {DeleteBackup(backup_history, backup_disk, backup_id)} :
           /\ backup_history' = d.history
           /\ backup_disk' = d.disk
           /\ backup_last' = BackupCall("delete", backup_id, FALSE,
                                        IF d.ok THEN "True" ELSE "False",
                                        "None")
    /\ UNCHANGED <<targets, aside, backup_now, created, settledVars,
                   afterBackupVars>>

\* a second passes
BackupTick ==
    /\ backup_now < 4 + MaxBackupTicks
    /\ backup_now' = backup_now + 1
    /\ UNCHANGED <<backup_history, backup_disk, targets, aside, backup_calls,
                   backup_last, created, settledVars, afterBackupVars>>

\* the user edits the files and the directory that backups are made of
edit_targets ==
    /\ \E t \in TargetNames : targets[t] # "edited"
    /\ targets' = [t \in TargetNames |-> "edited"]
    /\ UNCHANGED <<backup_history, backup_disk, aside, backup_now,
                   backup_calls, backup_last, created, settledVars,
                   afterBackupVars>>

\* an archive file of the history is altered on disk, or lost
damage_archive(path, lost) ==
    /\ path \in DOMAIN backup_disk
    /\ \E i \in DOMAIN backup_history : backup_history[i].file_path = path
    /\ backup_disk[path].bits = "original"
    /\ backup_disk' = IF lost THEN RemoveFile(backup_disk, path)
                      ELSE [backup_disk EXCEPT ![path].bits = "altered"]
    /\ UNCHANGED <<backup_history, targets, aside, backup_now, backup_calls,
                   backup_last, created, settledVars, afterBackupVars>>

\* the ids restore_backup and delete_backup are called with: the ids of the
\* history, the ids of the create calls made, and one unknown id
BackupIds ==
    {backup_history[i].backup_id : i \in DOMAIN backup_history}
        \cup {created[i].backup_id : i \in DOMAIN created}
        \cup {<<"full", 0>>}

InitBackup ==
    /\ backup_history = <<>>
    /\ backup_disk = <<>>
    /\ targets = [t \in TargetNames |-> CASE t = ConfigFile -> "config v1"
                                          [] t = DbFile -> "db v1"
                                          [] t = DataDir -> "data v1"]
    /\ aside = {}
    /\ backup_now = 4
    /\ backup_calls = 0
    /\ backup_last = BackupCall("none", <<"none", 0>>, FALSE, "None", "None")
    /\ created = <<>>

NextBackup ==
    \/ \E old \in BOOLEAN : backup_initialize(old)
    \/ create_full_backup({ConfigFile}, {DataDir})
    \/ create_config_backup({ConfigFile})
    \/ \E backup_id \in BackupIds, restore_config \in BOOLEAN :
           restore_backup(backup_id, TRUE, restore_config, TRUE)
    \/ \E backup_id \in BackupIds : delete_backup(backup_id)
    \/ BackupTick
    \/ edit_targets
    \/ \E path \in DOMAIN backup_disk, lost \in BOOLEAN :
           damage_archive(path, lost)

\* create and delete calls on a backup_dir that nothing else touches
NextBackupIds ==
    \/ \E old \in BOOLEAN : backup_initialize(old)
    \/ create_full_backup({ConfigFile}, {DataDir})
    \/ create_config_backup({ConfigFile})
    \/ \E backup_id \in BackupIds : delete_backup(backup_id)
    \/ BackupTick
    \/ edit_targets

InitBackupSetup == backup_setup = [max_backups |-> max_backups, loaded |-> <<>>]

\* initialize() under every configured max_backups, and what follows it
NextBackupInit ==
    \/ \E loaded \in LoadedHistories, max \in 0..max_backups :
           backup_initialize_configured(loaded, max)
    \/ \E backup_id \in BackupIds, restore_config \in BOOLEAN :
           restore_backup(backup_id, TRUE, restore_config, TRUE)
    \/ \E backup_id \in BackupIds : delete_backup(backup_id)
    \/ BackupTick
    \/ edit_targets

---------------------------------------------------------------------------
(* modules/task_manager.py: TaskManager called directly, with its
   MemorySystem                                                            *)

\* the title of the n-th task created
Titles == <<"report", "call", "memo", "notes", "plan">>

\* the priority and the due date, in days from today, that a task is
\* created with
TaskOptions == {<<"medium", None>>, <<"high", Some(1)>>}

\* a variant that hands out the same id again (excluded by C15)
uuid4_repeating(drawn) == 1

\* str(uuid.uuid4()): an id that was not drawn before, the ids drawn so
\* far being 1..drawn
uuid4(drawn) == drawn + 1

TaskCall(op, arg, result) == [op |-> op, arg |-> arg, result |-> result]

create_task(title, priority, due_date) ==
    /\ task_calls < MaxTaskCalls
    /\ Len(tasks) < MaxTasks
    /\ task_calls' = task_calls + 1
    /\ \E task_id \in {uuid4(next_uuid)} :
       \E memory_id \in {uuid4(next_uuid + 1)} :
           /\ tasks' = StoreTask(tasks, Task(task_id, title, priority,
                                             due_date))
           \* memory_system.store_knowledge("Task created: ...")
           /\ memory_items' =
                  _store_memory_item(memory_items,
                      MemoryItem(memory_id, "knowledge",
                          _calculate_importance(20, "knowledge", NoMetadata)))
           /\ next_uuid' = next_uuid + 2
           /\ task_last' = TaskCall("create", title,
                                    Task(task_id, title, priority, due_date))
    /\ UNCHANGED <<task_day, sessions, short_term_memory, mem_day,
                   max_memory_items, mem_last,
                   interaction_log, nonTaskVars>>

complete_task(task_id) ==
    /\ task_calls < MaxTaskCalls
    /\ task_calls' = task_calls + 1
    /\ IF \A i \in DOMAIN tasks : tasks[i].id # task_id
       THEN /\ tasks' = tasks
            /\ task_last' = TaskCall("complete", task_id,
                                     [returned |-> FALSE, prior |-> "None"])
       ELSE /\ tasks' = TasksAfterComplete(tasks, task_id, task_day)
            /\ task_last' =
                   TaskCall("complete", task_id,
                            [returned |-> TRUE,
                             prior |-> tasks[CHOOSE i \in DOMAIN tasks :
                                                tasks[i].id = task_id].status])
    /\ UNCHANGED <<task_day, memVars, nonTaskVars>>

\* the words of an update request: the title of a task and a status word
UpdateInputs ==
    {Txt({Titles[n], word}) :
        n \in 1..MaxTasks, word \in {"start", "hold"}}

\* process_request on an update request
update_task_from_input(input) ==
    /\ task_calls < MaxTaskCalls
    /\ task_calls' = task_calls + 1
    /\ \E flow \in {_update_task_from_input(tasks, input)} :
           /\ tasks' = flow.tasks
           /\ task_last' = TaskCall("update", input, flow.actions)
    /\ UNCHANGED <<task_day, memVars, nonTaskVars>>

\* a variant that counts the paused tasks as pending (excluded by C17)
Analytics_counting_paused(ts) ==
    LET count(statuses) ==
            Cardinality({i \in DOMAIN ts : ts[i].status \in statuses})
    IN  [total_tasks |-> Len(ts),
         completed_tasks |-> count({"completed"}),
         pending_tasks |-> count({"pending", "paused"}),
         in_progress_tasks |-> count({"in_progress"}),
         completion_rate |->
             IF Len(ts) > 0 THEN (count({"completed"}) * 10000) \div Len(ts)
             ELSE 0]

\* the map get_task_analytics returns; completion_rate, a float in the
\* code, is kept in hundredths of a percent, rounded down
Analytics(ts) ==
    LET count(statuses) ==
            Cardinality({i \in DOMAIN ts : ts[i].status \in statuses})
    IN  [total_tasks |-> Len(ts),
         completed_tasks |-> count({"completed"}),
         pending_tasks |-> count({"pending"}),
         in_progress_tasks |-> count({"in_progress"}),
         completion_rate |->
             IF Len(ts) > 0 THEN (count({"completed"}) * 10000) \div Len(ts)
             ELSE 0]

get_task_analytics ==
    /\ task_calls < MaxTaskCalls
    /\ task_calls' = task_calls + 1
    /\ task_last' = TaskCall("analytics", "None", Analytics(tasks))
    /\ UNCHANGED <<task_day, tasks, memVars, nonTaskVars>>

\* a day passes
TaskTick ==
    /\ task_day < MaxTaskDays
    /\ task_day' = task_day + 1
    /\ UNCHANGED <<task_calls, task_last, tasks, memVars, nonTaskVars>>

InitTasks ==
    /\ task_day = 0
    /\ task_calls = 0
    /\ task_last = TaskCall("none", "None", "None")

NextTasks ==
    \/ \E option \in TaskOptions :
           create_task(Titles[Len(tasks) + 1], option[1],
                       IF option[2] = None THEN None
                       ELSE Some(task_day + option[2][1]))
    \/ \E task_id \in {tasks[i].id : i \in DOMAIN tasks}
                         \cup {uuid4(next_uuid)} : complete_task(task_id)
    \/ \E input \in UpdateInputs : update_task_from_input(input)
    \/ get_task_analytics
    \/ TaskTick

---------------------------------------------------------------------------
(* modules/task_manager.py: the pure helpers of TaskManager, applied to
   inputs of bounded sets                                                  *)

\* a filter map: each key is absent (None) or present; a status filter is
\* one status or a list of statuses
Filter(priority, status, due_date) ==
    [priority |-> priority, status |-> status, due_date |-> due_date]

OneStatus(status) == [is_list |-> FALSE, value |-> status]

StatusList(statuses) == [is_list |-> TRUE, values |-> statuses]

Filters ==
    {Filter(priority, status, due_date) :
        priority \in {None, Some("high")},
        status \in {None, Some(OneStatus("pending")),
                    Some(StatusList(<<"pending", "in_progress">>))},
        due_date \in {None, Some("today"), Some("tomorrow"),
                      Some("this_week")}}

\* the tasks the filters are applied to; due dates are days
ProbeTasks ==
    {[Task(1, "report", priority, due_date) EXCEPT !.status = status] :
        priority \in {"high", "low"},
        status \in {"pending", "in_progress", "completed"},
        due_date \in {None, Some(0), Some(1), Some(8), Some(9)}}

\* a variant whose this_week bucket leaves out the day today + 7
\* (excluded by C18)
_task_matches_filters_short_week(task, filters, today) ==
    IF filters.priority # None /\ task.priority # filters.priority[1]
    THEN FALSE
    ELSE IF /\ filters.status # None
            /\ IF filters.status[1].is_list
               THEN \A i \in DOMAIN filters.status[1].values :
                        filters.status[1].values[i] # task.status
               ELSE task.status # filters.status[1].value
    THEN FALSE
    ELSE IF filters.due_date = None THEN TRUE
    ELSE CASE filters.due_date[1] = "today" ->
                  ~(task.due_date = None \/ task.due_date[1] # today)
           [] filters.due_date[1] = "tomorrow" ->
                  ~(task.due_date = None \/ task.due_date[1] # today + 1)
           [] filters.due_date[1] = "this_week" ->
                  ~(task.due_date = None \/ task.due_date[1] >= today + 7)
           [] OTHER -> TRUE

\* today is datetime.now().date()
_task_matches_filters(task, filters, today) ==
    IF filters.priority # None /\ task.priority # filters.priority[1]
    THEN FALSE
    ELSE IF /\ filters.status # None
            /\ IF filters.status[1].is_list
               THEN \A i \in DOMAIN filters.status[1].values :
                        filters.status[1].values[i] # task.status
               ELSE task.status # filters.status[1].value
    THEN FALSE
    ELSE IF filters.due_date = None THEN TRUE
    ELSE CASE filters.due_date[1] = "today" ->
                  ~(task.due_date = None \/ task.due_date[1] # today)
           [] filters.due_date[1] = "tomorrow" ->
                  ~(task.due_date = None \/ task.due_date[1] # today + 1)
           [] filters.due_date[1] = "this_week" ->
                  ~(task.due_date = None \/ task.due_date[1] > today + 7)
           [] OTHER -> TRUE

TaskMatchCall(task, filters) ==
    /\ task_calls < MaxTaskProbes
    /\ task_calls' = task_calls + 1
    /\ task_last' = TaskCall("matches",
                             [task |-> task, filters |-> filters,
                              today |-> task_day],
                             _task_matches_filters(task, filters, task_day))
    /\ UNCHANGED <<task_day, tasks, memVars, nonTaskVars>>

\* the requests of the tests and of the CLI (kanji and kana romanized):
\* "atarashii tasuku wo sakusei shite kudasai", "tasuku ichiran wo hyouji"
\* and "tasuku wo kanryou ni shitai"
InputCreateJa == Txt({"ja_atarashii", "ja_tasuku", "ja_sakusei"})

InputListJa == Txt({"ja_tasuku", "ja_ichiran", "ja_hyouji"})

InputCompleteJa == Txt({"ja_tasuku", "ja_kanryou"})

\* "create a new task", "show the task list", "finish the report"
InputCreateEn == Txt({"create", "new", "task"})

InputListEn == Txt({"show", "list", "task"})

InputCompleteEn == Txt({"finish", "report"})

IntentInputs ==
    {InputCreateJa, InputListJa, InputCompleteJa, InputCreateEn, InputListEn,
     InputCompleteEn, InputUrgentCreateJa, InputTaskGeneral}

AnalyzeTaskIntentCall(input) ==
    /\ task_calls < MaxTaskProbes
    /\ task_calls' = task_calls + 1
    /\ task_last' = TaskCall("intent", input, _analyze_task_intent(input))
    /\ UNCHANGED <<task_day, tasks, memVars, nonTaskVars>>

\* a duration string is a sequence of phrases: a word, with the digits
\* written right before it if any (None: no digits)
Phrase(digits, word) == [digits |-> digits, word |-> word]

\* "2 jikan 30 pun", "1 jikan", "45 fun", "fumei" (the strings of the
\* test), their English forms, a zero duration and words without digits
DurationStrings ==
    {<<Phrase(Some(2), "ja_jikan"), Phrase(Some(30), "ja_fun")>>,
     <<Phrase(Some(1), "ja_jikan")>>,
     <<Phrase(Some(45), "ja_fun")>>,
     <<Phrase(None, "ja_fumei")>>,
     <<Phrase(Some(2), "hours"), Phrase(Some(30), "minutes")>>,
     <<Phrase(Some(1), "hour")>>,
     <<Phrase(Some(45), "minutes")>>,
     <<Phrase(Some(0), "hours")>>,
     <<Phrase(None, "hours")>>,
     <<Phrase(Some(3), "days")>>,
     <<>>}

\* int(m.group(1)) for m = re.search(r'(\d+)\s*' + unit, s), or 0 without a
\* match: the first phrase with digits whose word starts with unit
SearchCount(duration_str, words) ==
    LET hit == {i \in DOMAIN duration_str :
                   /\ duration_str[i].digits # None
                   /\ duration_str[i].word \in words}
    IN  IF hit = {} THEN 0
        ELSE duration_str[CHOOSE i \in hit : \A j \in hit : i <= j].digits[1]

\* None, or the timedelta as hours and minutes
_parse_duration(duration_str) ==
    IF duration_str = <<>> THEN None
    ELSE LET hours == SearchCount(duration_str, {"hour", "hours"})
             minutes == SearchCount(duration_str, {"minute", "minutes"})
         IN  IF hours > 0 \/ minutes > 0
             THEN Some([hours |-> hours, minutes |-> minutes])
             ELSE None

ParseDurationCall(duration_str) ==
    /\ task_calls < MaxTaskProbes
    /\ task_calls' = task_calls + 1
    /\ task_last' = TaskCall("duration", duration_str,
                             _parse_duration(duration_str))
    /\ UNCHANGED <<task_day, tasks, memVars, nonTaskVars>>

NextTaskPure ==
    \/ \E task \in ProbeTasks, filters \in Filters :
           TaskMatchCall(task, filters)
    \/ \E input \in IntentInputs : AnalyzeTaskIntentCall(input)
    \/ \E duration_str \in DurationStrings : ParseDurationCall(duration_str)
    \/ TaskTick

---------------------------------------------------------------------------
(* modules/task_manager.py: TaskManager.process_request called directly    *)

\* "update the report: on hold", "update it", "finish the report" (see
\* InputCompleteEn), "done", "delete the report"
InputUpdateEn == Txt({"update", "report", "hold"})

InputUpdateNoTask == Txt({"update"})

InputCompleteNoTask == Txt({"done"})

InputDeleteEn == Txt({"delete", "report"})

\* one request for every action _analyze_task_intent tells apart
RequestInputs ==
    {InputCreateEn, InputListEn, InputUpdateEn, InputUpdateNoTask,
     InputCompleteEn, InputCompleteNoTask, InputDeleteEn, InputTaskGeneral,
     InputListJa}

\* await task_manager.process_request(input) with a vendor that answers
\* as llm says; the result records the exception that left the call, if any
process_request_call(input, llm) ==
    /\ task_calls < MaxTaskCalls
    /\ Len(tasks) < MaxTasks \/ _analyze_task_intent(input).action # "create"
    /\ task_calls' = task_calls + 1
    /\ \E flow \in {process_request(tasks, input, llm, uuid4(next_uuid))} :
           /\ tasks' = flow.tasks
           /\ IF flow.knowledge
              THEN /\ memory_items' =
                          _store_memory_item(memory_items,
                              MemoryItem(uuid4(next_uuid + 1), "knowledge",
                                  _calculate_importance(20, "knowledge",
                                                        NoMetadata)))
                   /\ next_uuid' = next_uuid + 2
              ELSE UNCHANGED <<memory_items, next_uuid>>
           /\ task_last' =
                  TaskCall("process_request",
                           [input |-> input, llm |-> llm,
                            action |-> _analyze_task_intent(input).action,
                            identified |->
                                _identify_task_from_input(tasks, input) # 0],
                           [raised |-> flow.raised, message |-> flow.message,
                            actions |-> flow.actions])
    /\ UNCHANGED <<task_day, sessions, short_term_memory, mem_day,
                   max_memory_items, mem_last,
                   interaction_log, nonTaskVars>>

NextTaskRequests ==
    \/ \E input \in RequestInputs, llm \in {"raise", "json"} :
           process_request_call(input, llm)
    \/ \E option \in TaskOptions :
           create_task(Titles[Len(tasks) + 1], option[1],
                       IF option[2] = None THEN None
                       ELSE Some(task_day + option[2][1]))
    \/ TaskTick

---------------------------------------------------------------------------
(* security/privacy.py: PrivacyManager                                     *)

\* user ids are texts, written as sequences of their parts
PrivacyUsers == {<<"u1">>, <<"u2">>}

DataTypes == {"conversation", "task_data"}

Purposes == {"analytics", "security", "compliance"}

\* hashlib.sha256(text).hexdigest()[:16]: a text that differs from its
\* argument and is the same for the same argument
_hash_string(text) == <<"sha256">> \o text

pseudonymize_user_id(user_id) == _hash_string(user_id \o <<"privacy_salt">>)

ConsentRecord(consent_id, user_id, data_type, purpose) ==
    [consent_id |-> consent_id, user_id |-> user_id, data_type |-> data_type,
     purpose |-> purpose, status |-> "pending"]

\* _setup_default_policies: the retention period of a data type, in days
data_retention_policies(data_type) ==
    IF data_type = "conversation" THEN 365 ELSE 180

DataProcessingRecord(record_id, data_type, purpose, user_consent, user_id) ==
    [record_id |-> record_id, data_type |-> data_type, purpose |-> purpose,
     processing_date |-> privacy_now,
     retention_period |-> data_retention_policies(data_type),
     user_consent |-> user_consent, anonymized |-> FALSE, user_id |-> user_id]

\* the status of the first record of the dict, in insertion order, that
\* matches the triple
check_user_consent(consents, user_id, data_type, purpose) ==
    LET hit == {i \in DOMAIN consents :
                   /\ consents[i].user_id = user_id
                   /\ consents[i].data_type = data_type
                   /\ consents[i].purpose = purpose}
    IN  IF hit = {} THEN "pending"
        ELSE consents[CHOOSE i \in hit : \A j \in hit : i <= j].status

PrivacyCall(op, arg, result) == [op |-> op, arg |-> arg, result |-> result]

record_data_processing(data_type, purpose, user_id) ==
    /\ privacy_ids < MaxPrivacyIds
    /\ privacy_ids' = privacy_ids + 1
    /\ processing_records' =
           Append(processing_records,
                  DataProcessingRecord(uuid4(privacy_ids), data_type, purpose,
                      check_user_consent(consent_records, user_id, data_type,
                                         purpose),
                      user_id))
    /\ privacy_last' = PrivacyCall("record", <<user_id, data_type, purpose>>,
                                   uuid4(privacy_ids))
    /\ UNCHANGED <<consent_records, nonPrivacyVars>>

request_user_consent(user_id, data_type, purpose) ==
    /\ privacy_ids < MaxPrivacyIds
    /\ privacy_ids' = privacy_ids + 1
    /\ consent_records' =
           Append(consent_records,
                  ConsentRecord(uuid4(privacy_ids), user_id, data_type,
                                purpose))
    /\ privacy_last' = PrivacyCall("request", <<user_id, data_type, purpose>>,
                                   uuid4(privacy_ids))
    /\ UNCHANGED <<processing_records, nonPrivacyVars>>

grant_consent(consent_id) ==
    /\ consent_records' =
           [i \in DOMAIN consent_records |->
               IF consent_records[i].consent_id = consent_id
               THEN [consent_records[i] EXCEPT !.status = "granted"]
               ELSE consent_records[i]]
    /\ privacy_last' =
           PrivacyCall("grant", consent_id,
                       \E i \in DOMAIN consent_records :
                           consent_records[i].consent_id = consent_id)
    /\ UNCHANGED <<processing_records, privacy_ids, nonPrivacyVars>>

\* processing_records after _handle_consent_withdrawal(consent)
_handle_consent_withdrawal(records, consent) ==
    [i \in DOMAIN records |->
        IF /\ records[i].user_id = consent.user_id
           /\ records[i].data_type = consent.data_type
           /\ records[i].purpose = consent.purpose
        THEN [records[i] EXCEPT !.user_consent = "withdrawn"]
        ELSE records[i]]

withdraw_consent(consent_id) ==
    /\ IF \E i \in DOMAIN consent_records :
              consent_records[i].consent_id = consent_id
       THEN \E i \in {j \in DOMAIN consent_records :
                         consent_records[j].consent_id = consent_id} :
                /\ consent_records' =
                       [consent_records EXCEPT ![i].status = "withdrawn"]
                /\ processing_records' =
                       _handle_consent_withdrawal(processing_records,
                                                  consent_records[i])
                /\ privacy_last' = PrivacyCall("withdraw", consent_id, TRUE)
       ELSE /\ UNCHANGED <<consent_records, processing_records>>
            /\ privacy_last' = PrivacyCall("withdraw", consent_id, FALSE)
    /\ UNCHANGED <<privacy_ids, nonPrivacyVars>>

CheckUserConsentCall(user_id, data_type, purpose) ==
    /\ privacy_last' =
           PrivacyCall("check", <<user_id, data_type, purpose>>,
                       check_user_consent(consent_records, user_id, data_type,
                                          purpose))
    /\ UNCHANGED <<consent_records, processing_records, privacy_ids, nonPrivacyVars>>

_can_delete_record(record) == record.purpose \notin {"compliance", "security"}

\* the data_types argument: not given (None), or a list of data types
TypesArgument(given, types) == [given |-> given, types |-> types]

\* target_types = data_types or list(DataType)
TargetTypes(data_types) ==
    IF ~data_types.given \/ data_types.types = {} THEN DataTypes
    ELSE data_types.types

delete_user_data(user_id, data_types) ==
    LET target_types == TargetTypes(data_types)
        matched == {i \in DOMAIN processing_records :
                       /\ processing_records[i].user_id = user_id
                       /\ processing_records[i].data_type \in target_types}
        deleted == {i \in matched : _can_delete_record(processing_records[i])}
        looped == [i \in DOMAIN processing_records |->
                      IF i \in matched \ deleted
                      THEN [processing_records[i] EXCEPT
                                !.anonymized = TRUE,
                                !.user_id = pseudonymize_user_id(user_id)]
                      ELSE processing_records[i]]
        ids(keep) == [k \in DOMAIN SubSeqIdx(processing_records, keep) |->
                         SubSeqIdx(processing_records, keep)[k].record_id]
    IN  /\ processing_records' =
               SubSeqIdx(looped, DOMAIN processing_records \ deleted)
        /\ privacy_last' =
               PrivacyCall("delete",
                           [user_id |-> user_id, data_types |-> data_types],
                           [deleted_records |-> ids(deleted),
                            anonymized_records |-> ids(matched \ deleted),
                            retained_records |-> <<>>])
        /\ UNCHANGED <<consent_records, privacy_ids, nonPrivacyVars>>

\* what the loop of cleanup_expired_data leaves of the records, and its
\* two counts
CleanupExpired(records, now) ==
    LET expired == {i \in DOMAIN records :
                       records[i].processing_date + records[i].retention_period
                           < now}
        deleted == {i \in expired : _can_delete_record(records[i])}
        looped == [i \in DOMAIN records |->
                      IF i \in expired \ deleted
                      THEN [records[i] EXCEPT
                                !.anonymized = TRUE,
                                !.user_id = pseudonymize_user_id(@)]
                      ELSE records[i]]
    IN  [records |-> SubSeqIdx(looped, DOMAIN records \ deleted),
         summary |-> [deleted_records |-> Cardinality(deleted),
                      anonymized_records |-> Cardinality(expired \ deleted)]]

cleanup_expired_data ==
    /\ cleanup_calls < MaxCleanups
    /\ cleanup_calls' = cleanup_calls + 1
    /\ \E c \in {CleanupExpired(processing_records, privacy_now)} :
           /\ processing_records' = c.records
           /\ privacy_last' = PrivacyCall("cleanup", privacy_now, c.summary)
    /\ UNCHANGED <<consent_records, privacy_ids, privacy_now, nonSweepVars>>

\* half a year and a few days pass
PrivacyTick ==
    /\ privacy_now < 185 * MaxPrivacyTicks
    /\ privacy_now' = privacy_now + 185
    /\ UNCHANGED <<privacyVars, cleanup_calls, nonSweepVars>>

InitSweep == privacy_now = 0 /\ cleanup_calls = 0

\* records are made, time passes and expired data are swept
NextPrivacyCleanup ==
    \/ \E user_id \in PrivacyUsers, data_type \in DataTypes,
          purpose \in {"analytics", "security"} :
           record_data_processing(data_type, purpose, user_id)
    \/ cleanup_expired_data
    \/ PrivacyTick

InitPrivacy ==
    /\ consent_records = <<>>
    /\ processing_records = <<>>
    /\ privacy_ids = 0
    /\ privacy_last = PrivacyCall("none", "None", "None")

\* consent requests, grants, withdrawals and checks for one user
NextConsent ==
    \/ \E data_type \in DataTypes, purpose \in {"analytics"} :
           request_user_consent(<<"u1">>, data_type, purpose)
    \/ \E consent_id \in 1..MaxPrivacyIds : grant_consent(consent_id)
    \/ \E consent_id \in 1..MaxPrivacyIds : withdraw_consent(consent_id)
    \/ \E data_type \in DataTypes, purpose \in {"analytics"} :
           CheckUserConsentCall(<<"u1">>, data_type, purpose)
    \/ \E data_type \in DataTypes :
           record_data_processing(data_type, "analytics", <<"u1">>)

\* the data_types arguments of delete_user_data
DeleteRequests ==
    {TypesArgument(FALSE, {}), TypesArgument(TRUE, {}),
     TypesArgument(TRUE, {"conversation"}), TypesArgument(TRUE, DataTypes)}

NextPrivacyDelete ==
    \/ \E user_id \in PrivacyUsers, data_type \in DataTypes,
          purpose \in Purposes :
           record_data_processing(data_type, purpose, user_id)
    \/ \E user_id \in PrivacyUsers, data_types \in DeleteRequests :
           delete_user_data(user_id, data_types)

---------------------------------------------------------------------------
(* storage/database.py: DatabaseManager                                    *)

\* the operations that open a session and commit, and those that only query
WriteOperations ==
    {"create_user", "create_session", "end_session", "store_interaction",
     "store_memory", "create_task", "log_audit", "cleanup_old_data"}

ReadOperations == {"get_user", "search_memories", "get_tasks", "get_statistics"}

\* what the except branch of a read operation returns
EmptyResult(op) ==
    CASE op = "get_user" -> "None"
      [] op = "get_statistics" -> "{}"
      [] OTHER -> "[]"

\* whether the except branch of the operation ends with `raise'
Reraises(op) == op \in WriteOperations \ {"log_audit"}

\* the exception raised inside the try block of an operation: the one the
\* database raises when a statement fails, and the NameError of
\* cleanup_old_data, which uses timedelta without importing it
ExceptionInTry(op, fault) ==
    IF op = "cleanup_old_data" THEN "NameError"
    ELSE IF fault = "statement" THEN "SQLAlchemyError"
    ELSE "None"

DbCall(op, fault, raised, returned, rolled_back) ==
    [op |-> op, fault |-> fault, initialized |-> db_initialized,
     raised |-> raised, returned |-> returned, rolled_back |-> rolled_back]

db_initialize ==
    /\ ~db_initialized
    /\ db_initialized' = TRUE
    /\ UNCHANGED <<db_committed, db_calls, db_last, nonDbVars>>

\* one operation: `with self.get_session() as db: try: ... except: ...';
\* fault tells whether a statement of the try block fails
DbOperation(op, fault) ==
    /\ db_calls < MaxDbCalls
    /\ db_calls' = db_calls + 1
    /\ IF ~db_initialized
       THEN \* get_session raises before the try block is entered
            /\ db_last' = DbCall(op, fault, "RuntimeError", "None", FALSE)
            /\ UNCHANGED db_committed
       ELSE \E e \in {ExceptionInTry(op, fault)} :
            IF e = "None"
            THEN /\ db_last' = DbCall(op, fault, "None", "result", FALSE)
                 /\ db_committed' =
                        IF op \in WriteOperations \/ op = "search_memories"
                        THEN Append(db_committed, op) ELSE db_committed
            ELSE /\ db_last' =
                        DbCall(op, fault,
                               IF Reraises(op) THEN e ELSE "None",
                               IF op \in ReadOperations THEN EmptyResult(op)
                               ELSE "None",
                               op \in WriteOperations)
                 /\ UNCHANGED db_committed
    /\ UNCHANGED <<db_initialized, nonDbVars>>

InitDatabase ==
    /\ db_initialized = FALSE
    /\ db_committed = <<>>
    /\ db_calls = 0
    /\ db_last = [op |-> "none", fault |-> "none", initialized |-> FALSE,
                  raised |-> "None", returned |-> "None",
                  rolled_back |-> FALSE]

NextDatabase ==
    \/ db_initialize
    \/ \E op \in WriteOperations \cup ReadOperations,
          fault \in {"none", "statement"} : DbOperation(op, fault)

---------------------------------------------------------------------------
(* interfaces/cli.py: CLIInterface                                         *)

\* what Prompt.ask returns at the main prompt
TypedInputs == {"", "  ", "hello", "/quit", "/EXIT", "/help", "/history"}

\* what Prompt.ask raises instead of returning
PromptRaises == {"EOFError", "KeyboardInterrupt"}

\* how the handling of one input, or a call on the agent, ends
Outcomes == {"ok", "Exception", "KeyboardInterrupt"}

\* str.strip() and str.lower() on the inputs above
Strip(text) == IF text = "  " THEN "" ELSE text

Lower(text) == IF text = "/EXIT" THEN "/exit" ELSE text

\* the inputs whose handling calls code that can fail
CanFail(text) == text \in {"hello", "/history"}

CountOf(trace, events) == Cardinality({i \in 1..Len(trace) : trace[i] \in events})

InputsRead(trace) == CountOf(trace, TypedInputs \cup PromptRaises)

\* a variant of _cleanup that does not look at session_active
_cleanup_always(trace, active, ends) ==
    trace \o <<"shutdown">>
          \o (IF ends = "Exception" THEN <<"cleanup_error_shown">>
              ELSE <<"finished_shown">>)

\* _cleanup: the trace after it; ends is how agent.shutdown ends
_cleanup(trace, active, ends) ==
    IF active
    THEN trace \o <<"shutdown">>
               \o (IF ends = "Exception" THEN <<"cleanup_error_shown">>
                   ELSE <<"finished_shown">>)
    ELSE trace \o <<"finished_shown">>

\* run() up to the first test of `while self.running'
run_initialize(ends, shutdown_ends) ==
    /\ cli_pc = "start"
    /\ IF ends = "ok"
       THEN /\ session_active' = TRUE
            /\ cli_trace' = Append(cli_trace, "initialize")
            /\ cli_pc' = "loop"
       ELSE /\ session_active' = session_active
            /\ cli_trace' =
                   _cleanup(cli_trace \o <<"initialize_failed",
                                IF ends = "KeyboardInterrupt"
                                THEN "farewell" ELSE "run_error_shown">>,
                            session_active, shutdown_ends)
            /\ cli_pc' = "done"
    /\ UNCHANGED <<running, nonCliVars>>

\* the inputs for which user_input.startswith('/') holds
SystemCommands == {"/quit", "/EXIT", "/help", "/history"}

\* the events of _handle_system_command
_handle_system_command(command, ends) ==
    IF Lower(command) \in {"/quit", "/exit"} THEN <<"stop">>
    ELSE IF ends = "ok" THEN <<"displayed">>
    ELSE IF ends = "Exception" THEN <<"raise Exception">>
    ELSE <<"raise KeyboardInterrupt">>

\* the events of _handle_agent_interaction; the except clause of the call
\* shows an Exception, a KeyboardInterrupt passes through
_handle_agent_interaction(ends) ==
    <<"process_input">>
        \o (IF ends = "ok" THEN <<"displayed">>
            ELSE IF ends = "Exception" THEN <<"error_shown">>
            ELSE <<"raise KeyboardInterrupt">>)

\* the events of one call of _process_input_loop
InputEvents(prompt, ends) ==
    IF prompt = "EOFError" THEN <<prompt, "stop">>
    ELSE IF prompt = "KeyboardInterrupt"
    THEN <<prompt, "raise KeyboardInterrupt">>
    ELSE IF Strip(prompt) = "" THEN <<prompt>>
    ELSE LET handled ==
                 IF Strip(prompt) \in SystemCommands
                 THEN _handle_system_command(Strip(prompt), ends)
                 ELSE _handle_agent_interaction(ends)
         IN  <<prompt>> \o
                (IF handled[Len(handled)] = "raise Exception"
                 THEN SubSeq(handled, 1, Len(handled) - 1)
                          \o <<"error_shown">>
                 ELSE handled)

\* one pass of `while self.running: await self._process_input_loop()', and
\* the except and finally clauses of run() when the pass is the last one
_process_input_loop(prompt, ends, shutdown_ends) ==
    /\ cli_pc = "loop"
    /\ running
    /\ InputsRead(cli_trace) < MaxCliInputs
    /\ CanFail(prompt) \/ ends = "ok"
    /\ \E events \in {InputEvents(prompt, ends)} :
       \E last \in {events[Len(events)]} :
          /\ running' = (last # "stop")
          /\ IF last = "raise KeyboardInterrupt"
             THEN /\ cli_trace' =
                        _cleanup(cli_trace
                                   \o SubSeq(events, 1, Len(events) - 1)
                                   \o <<"farewell">>,
                                 session_active, shutdown_ends)
                  /\ cli_pc' = "done"
             ELSE IF last = "stop"
             THEN /\ cli_trace' =
                        _cleanup(cli_trace
                                   \o SubSeq(events, 1, Len(events) - 1),
                                 session_active, shutdown_ends)
                  /\ cli_pc' = "done"
             ELSE /\ cli_trace' = cli_trace \o events
                  /\ cli_pc' = "loop"
    /\ UNCHANGED <<session_active, nonCliVars>>

InitCli ==
    /\ cli_pc = "start"
    /\ running = TRUE
    /\ session_active = FALSE
    /\ cli_trace = <<>>

NextCli ==
    \/ \E ends \in Outcomes, shutdown_ends \in {"ok", "Exception"} :
           run_initialize(ends, shutdown_ends)
    \/ \E prompt \in TypedInputs \cup PromptRaises, ends \in Outcomes,
          shutdown_ends \in {"ok", "Exception"} :
           _process_input_loop(prompt, ends, shutdown_ends)

---------------------------------------------------------------------------
Init ==
    /\ InitContext /\ InitMemory /\ InitAgent /\ InitAuth /\ InitAuthz
    /\ InitCache /\ InitBackup /\ InitTasks /\ InitPrivacy
    /\ InitDatabase /\ InitCli /\ InitTrend /\ InitBackupSetup
    /\ InitSessions /\ InitSweep

SpecContext == Init /\ [][NextContext]_vars

SpecMemory == Init /\ [][NextMemory]_vars

SpecMemoryStore == Init /\ [][NextMemoryStore]_vars

SpecRetrieve == Init /\ [][NextRetrieve]_vars

SpecAgent == Init /\ [][NextAgent]_vars

SpecAgentLifecycle == Init /\ [][NextAgentLifecycle]_vars

SpecAuth == Init /\ [][NextAuth]_vars

SpecSessions == Init /\ [][NextSessions]_vars

SpecAuthz == Init /\ [][NextAuthz]_vars

SpecCache == Init /\ [][NextCache]_vars

SpecCacheFault == Init /\ [][NextCacheFault]_vars

SpecBackup == Init /\ [][NextBackup]_vars

SpecTasks == Init /\ [][NextTasks]_vars

SpecTaskPure == Init /\ [][NextTaskPure]_vars

SpecTaskRequests == Init /\ [][NextTaskRequests]_vars

SpecConsent == Init /\ [][NextConsent]_vars

SpecPrivacyDelete == Init /\ [][NextPrivacyDelete]_vars

SpecPrivacyCleanup == Init /\ [][NextPrivacyCleanup]_vars

SpecDatabase == Init /\ [][NextDatabase]_vars

SpecCli == Init /\ [][NextCli]_vars

SpecBackupIds == Init /\ [][NextBackupIds]_vars

SpecBackupInit == Init /\ [][NextBackupInit]_vars

SpecCachePattern == Init /\ [][NextCachePattern]_vars

SpecContextTrend == Init /\ [][NextContextTrend]_vars

---------------------------------------------------------------------------
(* Properties of PersonalAIAgent.process_input, checked under SpecAgent     *)

\* the shape of the AgentResponse the except branch builds
IsErrorResponse(r) ==
    /\ r.confidence = 0
    /\ r.sources = <<>>
    /\ r.actions_taken = <<>>
    /\ r.suggestions # <<>>
    /\ r.error # "None"

\* a step of the latest process_input call failed
StepFailed ==
    \/ last_call.fault = "initialize" /\ ~last_call.was_running
    \/ ~last_call.input.is_str
    \/ last_call.fault \in {"analyze_intent", "store_interaction"}
    \/ last_call.fault = "store_learning_data" /\ learning_enabled
    \/ /\ last_call.llm = "raise"
       /\ _analyze_intent(last_call.input) = "general"

\* the handler of the latest call asked the vendor for a completion: the
\* general handler, the task module's create and general-assistance flows,
\* and the communication module (for the draft, or for the placeholder
\* values of a template)
HandlerCalledLLM ==
    LET primary == _analyze_intent(last_call.input)
    IN  \/ primary \in {"general", "email"}
        \/ /\ primary = "task"
           /\ _analyze_task_intent(last_call.input).action
                  \in {"create", "general"}

\* the communication module answers the latest call from a template
DraftFromTemplate ==
    LET comm == _analyze_communication_intent(last_call.input)
    IN  /\ comm.use_template
        /\ \E i \in DOMAIN Templates :
               Templates[i].type = comm.type /\ Templates[i].tone = comm.tone

\* the latest call reached its handler with a failing vendor and no other
\* failure
VendorFailedInHandler ==
    /\ turns > 0
    /\ last_call.llm = "raise"
    /\ last_call.fault = "none"
    /\ last_call.input.is_str
    /\ HandlerCalledLLM

(* C1: process_input never raises to its caller: whichever step fails
   (initialising a not-running agent, the context update, the intent
   classification, the routing, the interaction store, the learning store),
   the caller gets an AgentResponse with confidence 0.0, no sources, no
   actions, a suggestion and the error text. *)
C1_ProcessInputNeverRaises ==
    (turns > 0 /\ StepFailed) =>
        /\ ~outcome.raised
        /\ IsErrorResponse(outcome.response)

(* C2, as the spec states it: for every intent whose handler calls the
   vendor (task, email, general) a vendor failure reaches the catch-all of
   process_input, which answers with confidence 0.0 and the error text. *)
C2_VendorFailureAlwaysErrorResponse ==
    VendorFailedInHandler =>
        /\ outcome.response.confidence = 0
        /\ outcome.response.error # "None"

(* C2, amended: only the general handler lets a vendor failure through to
   the catch-all (confidence 0.0, the error text); the task and the email
   handlers catch it themselves and return their fallback result, which
   process_input hands on as an ordinary response with the module as
   source, no error, and confidence 0.8 (0.9 for a draft made from a
   template). *)
C2_VendorFailureByHandler ==
    VendorFailedInHandler =>
        LET primary == _analyze_intent(last_call.input)
            r == outcome.response
        IN  /\ ~outcome.raised
            /\ primary = "general" =>
                   IsErrorResponse(r) /\ r.error = "LLMError"
            /\ primary = "task" =>
                   /\ r.error = "None" /\ r.confidence = 8
                   /\ r.sources = <<"TaskManager">> /\ r.actions_taken = <<>>
            /\ primary = "email" =>
                   /\ r.error = "None"
                   /\ r.confidence = IF DraftFromTemplate THEN 9 ELSE 8
                   /\ r.sources = <<"CommunicationModule">>
                   /\ r.actions_taken = <<"draft_generated">>

\* a task-create turn whose vendor call failed and that was answered with
\* the fallback result
C2_Witness ==
    /\ VendorFailedInHandler
    /\ last_call.input = InputUrgentCreateEn
    /\ outcome.response.confidence = 8
    /\ outcome.response.error = "None"
    /\ error_log = <<>>

\* the latest call was a general turn of a running agent whose vendor call
\* raised
FailedGeneralTurn ==
    /\ turns > 0
    /\ last_call.was_running
    /\ last_call.llm = "raise"
    /\ last_call.input.is_str
    /\ _analyze_intent(last_call.input) = "general"

(* C3: when the vendor call raises during a general turn of a running
   agent, process_input returns the error response without raising, the
   agent is still running, and the next process_input call with a working
   environment is answered by its handler as usual. *)
C3_AgentSurvivesVendorFailure ==
    [][ /\ (turns' = turns + 1 /\ FailedGeneralTurn') =>
               /\ ~outcome'.raised
               /\ IsErrorResponse(outcome'.response)
               /\ outcome'.response.error = "LLMError"
               /\ is_running'
        /\ (/\ turns' = turns + 1 /\ FailedGeneralTurn /\ is_running
            /\ last_call'.llm = "json" /\ last_call'.fault = "none"
            /\ last_call'.input.is_str) =>
               /\ ~outcome'.raised
               /\ is_running'
               /\ outcome'.response =
                      _route_to_module(_analyze_intent(last_call'.input),
                                       last_call'.input, "json",
                                       next_uuid + 1).response
               /\ outcome'.response.error = "None"
      ]_vars

\* a failed general turn followed by a turn that was answered normally
C3_Witness ==
    /\ turns = 2
    /\ error_log = <<"LLMError">>
    /\ is_running
    /\ last_call.was_running
    /\ last_call.input = InputUrgentCreateEn
    /\ outcome.response.actions_taken = <<"task_created">>
    /\ Len(context_history) = 2
    /\ context_history[1].content = InputGeneral

(* C4: the input "緊急のタスクを作成してください" is classified as a task
   intent with the urgent priority filter detected, goes through the task
   module's create flow, and is answered with sources = ["TaskManager"] and
   actions_taken containing "task_created". *)
C4_UrgentCreateScenario ==
    (/\ turns > 0
     /\ last_call.input = InputUrgentCreateJa
     /\ last_call.llm = "json"
     /\ last_call.fault = "none") =>
        /\ _analyze_intent(last_call.input) = "task"
        /\ _analyze_task_intent(last_call.input).priority = "urgent"
        /\ _analyze_task_intent(last_call.input).action = "create"
        /\ outcome.response.sources = <<"TaskManager">>
        /\ \E i \in DOMAIN outcome.response.actions_taken :
               outcome.response.actions_taken[i] = "task_created"

---------------------------------------------------------------------------
(* Properties of ContextManager's history, checked under SpecContext        *)

(* C5: the context history never holds more than context_window_size
   items; an append to a full history removes exactly the oldest item and
   keeps the others in their order, the new item coming last. *)
C5_ContextWindowBounded ==
    /\ [](Len(context_history) <= ContextWindowSize)
    /\ [][ctx_clock' = ctx_clock + 1 =>
              /\ context_history'[Len(context_history')].timestamp = ctx_clock'
              /\ IF Len(context_history) = ContextWindowSize
                 THEN /\ Len(context_history') = ContextWindowSize
                      /\ \A i \in 1..(ContextWindowSize - 1) :
                             context_history'[i] = context_history[i + 1]
                 ELSE /\ Len(context_history') = Len(context_history) + 1
                      /\ \A i \in DOMAIN context_history :
                             context_history'[i] = context_history[i]
      ]_vars

\* a full history that lost its two oldest items
C5_Witness ==
    /\ Len(context_history) = ContextWindowSize
    /\ ctx_clock = ContextWindowSize + 2
    /\ context_history[1].timestamp = 3
    /\ context_history[ContextWindowSize].timestamp = ctx_clock

---------------------------------------------------------------------------
(* Properties of MemorySystem's short-term list, checked under SpecMemory   *)

(* C6: the short-term list never holds more than context_window_size ids;
   it is the most recent ids store_interaction returned since the latest
   start_session, in order: on overflow the oldest id goes, whatever the
   importance of its item; start_session empties the list. *)
C6_ShortTermIsRecentWindow ==
    /\ [](/\ Len(short_term_memory) <= ContextWindowSize
          /\ short_term_memory =
                 SubSeq(interaction_log,
                        Max2(1, Len(interaction_log) - ContextWindowSize + 1),
                        Len(interaction_log)))
    /\ [][Len(sessions') > Len(sessions) => short_term_memory' = <<>>]_vars

\* the list overflowed: the id it dropped belongs to an item that is still
\* stored and is more important than an item whose id was kept
C6_Witness ==
    /\ Len(interaction_log) > ContextWindowSize
    /\ Len(short_term_memory) = ContextWindowSize
    /\ \E i, j \in DOMAIN memory_items :
           /\ memory_items[i].id = interaction_log[1]
           /\ \E k \in DOMAIN short_term_memory :
                  short_term_memory[k] = memory_items[j].id
           /\ memory_items[i].importance > memory_items[j].importance

---------------------------------------------------------------------------
(* Properties of the login rate limiter, checked under SpecAuth             *)

\* the failures recorded for a key less than `window' minutes before now
RecentFailures(key, now) ==
    {i \in DOMAIN failure_log :
        failure_log[i].key = key /\ now - failure_log[i].time < window}

(* C7: once max_login_attempts failed attempts have been recorded for a key
   (the IP address if one is given, else the username) within the last 15
   minutes, an authenticate_user call for that key is rejected by the rate
   limiter, before any user lookup or password comparison and without a new
   failure being recorded; once 15 minutes have passed since the failures
   of the key, a call for it passes the rate limiter again. *)
C7_RateLimiterWindow ==
    [][auth_calls' = auth_calls + 1 =>
           LET key == IF auth_last'.ip_address # "None"
                      THEN auth_last'.ip_address ELSE auth_last'.username
           IN  /\ Cardinality(RecentFailures(key, auth_now))
                      >= max_login_attempts =>
                      /\ auth_last'.limited
                      /\ ~auth_last'.looked_up
                      /\ failure_log' = failure_log
               /\ (\A i \in DOMAIN failure_log :
                       failure_log[i].key = key =>
                           auth_now - failure_log[i].time >= window) =>
                      /\ ~auth_last'.limited
                      /\ auth_last'.looked_up
      ]_vars

\* max_login_attempts failures of one key inside the window, a rejected
\* call, and 15 minutes after the failures a call of the key that passed
C7_Witness ==
    /\ Len(failure_log) = max_login_attempts + 1
    /\ auth_calls > Len(failure_log)
    /\ \A i \in 1..max_login_attempts :
           /\ failure_log[i].key = "10.0.0.1"
           /\ failure_log[i].time - failure_log[1].time < window
           /\ auth_now - failure_log[i].time >= window
    /\ failure_log[max_login_attempts + 1] =
           [key |-> "10.0.0.1", time |-> auth_now]
    /\ ~auth_last.limited
    /\ auth_last.ip_address = "10.0.0.1"

---------------------------------------------------------------------------
(* Properties of the permission check, checked under SpecAuthz              *)

(* C8: check_permission is false for every inactive user, also one holding
   admin; otherwise true for a holder of admin; otherwise true when the
   resource is registered and the action is not in its required list;
   otherwise true exactly when the action is in the user's permissions.
   The require_permission guard invokes the wrapped operation only when a
   current user is supplied and the check is true, and raises otherwise. *)
C8_PermissionCheck ==
    [][authz_last' # authz_last =>
           LET l == authz_last'
               admin == "admin" \in l.user.permissions
               ungated == /\ l.resource \in DOMAIN resource_permissions
                          /\ l.action \notin resource_permissions[l.resource]
               supplied == l.user # NoUser
           IN  /\ (l.op = "check" \/ supplied) =>
                      /\ ~l.user.is_active => ~l.result
                      /\ (l.user.is_active /\ admin) => l.result
                      /\ (l.user.is_active /\ ~admin /\ ungated) => l.result
                      /\ (l.user.is_active /\ ~admin /\ ~ungated) =>
                             (l.result <=> l.action \in l.user.permissions)
               /\ l.op = "guard" =>
                      /\ l.invoked <=> (supplied /\ l.result)
                      /\ l.raised <=> ~l.invoked
      ]_vars

\* the guard refused an inactive holder of admin on a registered resource
C8_Witness ==
    /\ authz_last.op = "guard"
    /\ authz_last.user = [is_active |-> FALSE, permissions |-> {"admin"}]
    /\ authz_last.raised /\ ~authz_last.invoked
    /\ "tasks" \in DOMAIN resource_permissions

---------------------------------------------------------------------------
(* Properties of CacheManager, checked under SpecCache                      *)

(* C9: for a value written with set(key, value, ttl), a get(key) right
   after the set returns the value, and every get(key) made once ttl
   seconds have passed, with no further set of the key, returns not-found,
   whichever tier served or back-filled the earlier reads. *)
C9_TtlExpiry ==
    [][(cache_ops' = cache_ops + 1 /\ cache_last'.op = "get") =>
           LET key == cache_last'.key
           IN  /\ (/\ cache_last.op = "set" /\ cache_last.key = key
                   /\ cache_now < written[key].expires_at) =>
                      cache_last'.result = written[key].value
               /\ cache_now >= written[key].expires_at =>
                      cache_last'.result = "None"
      ]_vars

(* C10: the in-process tier never holds more than memory_cache_max_size
   entries; an insertion made when it is full first removes floor(size/4)
   entries, and every removed entry was last accessed no later than every
   entry kept. *)
C10_MemoryTierBoundedLru ==
    /\ [](Len(memory_cache) <= memory_cache_max_size)
    /\ [][(/\ cache_ops' = cache_ops + 1
           /\ cache_last'.stored
           /\ Len(memory_cache) >= memory_cache_max_size) =>
              LET key == cache_last'.key
                  n == Len(memory_cache)
                  holds(c, k) == \E i \in DOMAIN c : c[i].key = k
                  \* the key written was itself removed before it was put back
                  key_removed == /\ holds(memory_cache, key)
                                 /\ Len(memory_cache') = n - (n \div 4) + 1
                  removed == {i \in DOMAIN memory_cache :
                                 IF memory_cache[i].key = key THEN key_removed
                                 ELSE ~holds(memory_cache',
                                 memory_cache[i].key)}
              IN  /\ Cardinality(removed) = n \div 4
                  /\ \A i \in removed, j \in DOMAIN memory_cache \ removed :
                         memory_cache[i].last_accessed
                             <= memory_cache[j].last_accessed
                  /\ holds(memory_cache', key)
      ]_vars

\* a set at capacity that removed the second key and kept the first, which
\* had been read later
C10_Witness ==
    /\ cache_last.op = "set" /\ cache_last.stored
    /\ cache_last.key = memory_cache_max_size + 1
    /\ Len(memory_cache) =
           memory_cache_max_size - (memory_cache_max_size \div 4) + 1
    /\ memory_cache[1].key = 1
    /\ memory_cache[1].last_accessed > memory_cache[2].last_accessed
    /\ \A i \in DOMAIN memory_cache : memory_cache[i].key # 2

---------------------------------------------------------------------------
(* Properties of CacheManager with a failing Redis server, checked under
   SpecCacheFault                                                          *)

\* the in-process tier holds value under key
MemoryHolds(cache, key, value) ==
    \E i \in DOMAIN cache : cache[i].key = key /\ cache[i].value = value

(* C11: a failure of the Redis server never raises out of initialize, set,
   get, delete or exists, and while the server is failing (unreachable at
   startup, or down after a successful startup) set(key, v) still stores v
   in the in-process tier and a following get(key) returns v. *)
C11_RemoteFailureDegradesToMemory ==
    /\ [](~cache_last.raised)
    /\ [][(cache_ops' = cache_ops + 1 /\ ~redis_up) =>
              /\ cache_last'.op = "set" =>
                     MemoryHolds(memory_cache', cache_last'.key,
                                 cache_last'.result)
              /\ (/\ cache_last'.op = "get" /\ cache_last.op = "set"
                  /\ cache_last.key = cache_last'.key) =>
                     cache_last'.result = cache_last.result
      ]_vars

---------------------------------------------------------------------------
(* Properties of BackupManager, checked under SpecBackup                    *)

\* restore_backup(backup_id) cannot start: the id is unknown, the archive
\* file is missing, or its bytes do not match the recorded checksum
RestoreCannotStart(backup_id) ==
    \/ ~HasBackup(backup_history, backup_id)
    \/ LET info == get_backup_info(backup_history, backup_id)
       IN  \/ info.file_path \notin DOMAIN backup_disk
           \/ _calculate_checksum(backup_disk[info.file_path])
                  # info.checksum

(* C12: restore_backup called with an unknown backup id, a missing archive
   file, or an archive whose bytes no longer match the recorded checksum
   returns false without raising, and has overwritten, moved or copied
   aside no database, configuration or user-data target. *)
C12_RestoreFailureReturnsFalse ==
    [][(/\ backup_calls' = backup_calls + 1
        /\ backup_last'.op = "restore"
        /\ RestoreCannotStart(backup_last'.backup_id)) =>
           /\ backup_last'.result = "False"
           /\ targets' = targets
           /\ aside' = aside
      ]_vars

\* the latest create call that computed backup_id
LatestCreate(backup_id) ==
    created[CHOOSE i \in DOMAIN created :
               /\ created[i].backup_id = backup_id
               /\ \A j \in (i + 1)..Len(created) :
                      created[j].backup_id # backup_id]

(* C13: for every backup made by create_full_backup or create_config_backup
   whose archive is unaltered, restore_backup of its id with restore_config
   true returns true, and afterwards the configuration file the backup
   holds has, at its original path, the content it had when the backup was
   made. *)
C13_ConfigRoundTrip ==
    [][(/\ backup_calls' = backup_calls + 1
        /\ backup_last'.op = "restore"
        /\ backup_last'.restore_config
        /\ \E i \in DOMAIN created :
               created[i].backup_id = backup_last'.backup_id) =>
           /\ backup_last'.result = "True"
           /\ targets'[ConfigFile] =
                  LatestCreate(backup_last'.backup_id).targets[ConfigFile]
      ]_vars

(* C14: once more than max_backups backups have been created with one
   BackupManager, backup_history holds exactly max_backups entries, and
   every backup that is no longer in it was created no later than every
   entry kept. *)
C14_BackupRetention ==
    Len(created) > max_backups =>
        /\ Len(backup_history) = max_backups
        /\ \A i \in DOMAIN created, j \in DOMAIN backup_history :
               ~HasBackup(backup_history, created[i].backup_id) =>
                   created[i].backup_id[2] <= backup_history[j].created_at

---------------------------------------------------------------------------
(* Properties of TaskManager called directly, checked under SpecTasks       *)

(* C15: every create_task call returns a task with status pending and a
   non-empty id different from the id of every task already in the store,
   and the task is in the store under that id when the call returns. *)
C15_CreateTask ==
    [][(task_calls' = task_calls + 1 /\ task_last'.op = "create") =>
           LET task == task_last'.result
           IN  /\ task.status = "pending"
               /\ task.id # 0
               /\ \A i \in DOMAIN tasks : tasks[i].id # task.id
               /\ \E i \in DOMAIN tasks' :
                      /\ tasks'[i] = task
                      /\ \A j \in DOMAIN tasks' :
                             tasks'[j].id = task.id => j = i
      ]_vars

\* a create_task call returned the third task of a store
C15_Witness ==
    /\ task_last.op = "create"
    /\ Len(tasks) = 3
    /\ tasks[3] = task_last.result
    /\ Cardinality({tasks[i].id : i \in DOMAIN tasks}) = 3

\* the tasks of the store with one of the statuses
WithStatus(statuses) == {i \in DOMAIN tasks : tasks[i].status \in statuses}

(* C16: complete_task(id) on an id in the store returns true and leaves the
   task completed with a completed_at, whatever its status was before (a
   completed task stays completed); on an id that is not in the store it
   returns false and changes no task. *)
C16_CompleteTask ==
    [][(task_calls' = task_calls + 1 /\ task_last'.op = "complete") =>
           LET task_id == task_last'.arg
           IN  IF \E i \in DOMAIN tasks : tasks[i].id = task_id
               THEN /\ task_last'.result.returned
                    /\ Len(tasks') = Len(tasks)
                    /\ \A i \in DOMAIN tasks :
                           tasks[i].id = task_id =>
                               /\ tasks'[i].status = "completed"
                               /\ tasks'[i].completed_at # None
               ELSE /\ ~task_last'.result.returned
                    /\ tasks' = tasks
      ]_vars

\* complete_task returned true on a task that was in progress, in a store
\* that holds another task
C16_Witness ==
    /\ task_last.op = "complete"
    /\ task_last.result.returned
    /\ task_last.result.prior = "in_progress"
    /\ Len(tasks) >= 2
    /\ \E i \in DOMAIN tasks :
           /\ tasks[i].id = task_last.arg
           /\ tasks[i].status = "completed"
           /\ tasks[i].completed_at = Some(task_day)

(* C17: after any sequence of create, update and complete operations,
   get_task_analytics reports total_tasks equal to the number of stored
   tasks, the completed, pending and in_progress counts equal to the number
   of stored tasks in each of those statuses (their sum is at most
   total_tasks), completion_rate = completed/total*100, and
   completion_rate = 0 for an empty store. *)
C17_TaskAnalytics ==
    task_last.op = "analytics" =>
        LET a == task_last.result
        IN  /\ a.total_tasks = Len(tasks)
            /\ a.completed_tasks = Cardinality(WithStatus({"completed"}))
            /\ a.pending_tasks = Cardinality(WithStatus({"pending"}))
            /\ a.in_progress_tasks = Cardinality(WithStatus({"in_progress"}))
            /\ a.completed_tasks + a.pending_tasks + a.in_progress_tasks
                   <= a.total_tasks
            /\ a.total_tasks = 0 => a.completion_rate = 0
            /\ a.total_tasks > 0 =>
                   a.completion_rate =
                       (a.completed_tasks * 10000) \div a.total_tasks

\* the analytics of a store of three tasks, one completed by complete_task
\* and one paused by an update: the three counts add up to less than the
\* total
C17_Witness ==
    /\ task_last.op = "analytics"
    /\ Len(tasks) = 3
    /\ task_last.result.completed_tasks = 1
    /\ task_last.result.pending_tasks = 1
    /\ task_last.result.in_progress_tasks = 0
    /\ task_last.result.completion_rate = 3333
    /\ WithStatus({"paused"}) # {}
    /\ \E i \in WithStatus({"completed"}) : tasks[i].completed_at # None

---------------------------------------------------------------------------
(* Properties of the pure helpers of TaskManager, checked under
   SpecTaskPure                                                            *)

(* C18: _task_matches_filters(task, filters) returns true exactly when
   every filter present holds: priority equals the task's priority; status
   equals the task's status or, for a list, contains it; due_date today or
   tomorrow means the task has a due date on that day, and this_week means
   it has a due date not later than today + 7 days. An empty filter map
   matches every task. *)
C18_TaskMatchesFilters ==
    task_last.op = "matches" =>
        LET task == task_last.arg.task
            f == task_last.arg.filters
            today == task_last.arg.today
            priority_holds == f.priority = Some(task.priority)
            status_holds ==
                \/ f.status = Some(OneStatus(task.status))
                \/ /\ f.status[1].is_list
                   /\ \E i \in DOMAIN f.status[1].values :
                          f.status[1].values[i] = task.status
            due_holds ==
                /\ task.due_date # None
                /\ f.due_date = Some("today") => task.due_date[1] = today
                /\ f.due_date = Some("tomorrow") =>
                       task.due_date[1] = today + 1
                /\ f.due_date = Some("this_week") =>
                       task.due_date[1] <= today + 7
        IN  /\ task_last.result =
                   (/\ f.priority # None => priority_holds
                    /\ f.status # None => status_holds
                    /\ f.due_date # None => due_holds)
            /\ f = Filter(None, None, None) => task_last.result

\* a task due on the day today + 7 matched the this_week filter together
\* with a status list
C18_Witness ==
    /\ task_last.op = "matches"
    /\ task_last.result
    /\ task_last.arg.filters.due_date = Some("this_week")
    /\ task_last.arg.filters.status # None
    /\ task_last.arg.filters.status[1].is_list
    /\ task_last.arg.task.due_date = Some(task_last.arg.today + 7)

(* C19: _analyze_task_intent classifies the creation request of the tests
   as create, the list request the tests and the bare /task command of the
   CLI send as list, and the completion request of the tests as
   complete. *)
C19_IntentOfJapaneseRequests ==
    task_last.op = "intent" =>
        /\ task_last.arg = InputCreateJa => task_last.result.action = "create"
        /\ task_last.arg = InputListJa => task_last.result.action = "list"
        /\ task_last.arg = InputCompleteJa =>
               task_last.result.action = "complete"

(* C20: _parse_duration returns H hours plus M minutes for the strings of
   the test that name an hour count and/or a minute count (2 hours 30
   minutes, 1 hour, 45 minutes, written with the Japanese units), and no
   value for every input without an hour or minute pattern. *)
C20_ParseDuration ==
    task_last.op = "duration" =>
        LET s == task_last.arg
            units == {"ja_jikan", "ja_fun", "hour", "hours", "minute",
                      "minutes"}
        IN  /\ s = <<Phrase(Some(2), "ja_jikan"), Phrase(Some(30), "ja_fun")>>
                   => task_last.result = Some([hours |-> 2, minutes |-> 30])
            /\ s = <<Phrase(Some(1), "ja_jikan")>>
                   => task_last.result = Some([hours |-> 1, minutes |-> 0])
            /\ s = <<Phrase(Some(45), "ja_fun")>>
                   => task_last.result = Some([hours |-> 0, minutes |-> 45])
            /\ (\A i \in DOMAIN s :
                    s[i].digits = None \/ s[i].word \notin units)
                   => task_last.result = None

---------------------------------------------------------------------------
(* Properties of TaskManager.process_request, checked under
   SpecTaskRequests                                                        *)

(* C21: process_request raises nothing and returns a map with a message
   and an actions list, for every request and every action it classifies,
   whether the vendor call fails or not; an update or complete request that
   matches no task gets an explanatory message and an empty actions list. *)
C21_ProcessRequestNeverRaises ==
    task_last.op = "process_request" =>
        /\ task_last.result.raised = "None"
        /\ task_last.result.message # "None"
        /\ task_last.arg.action \in {"update", "complete"}
               /\ ~task_last.arg.identified =>
               /\ task_last.result.actions = <<>>
               /\ task_last.result.message \in
                      {"Could not identify task to update",
                       "Could not identify task to complete"}

---------------------------------------------------------------------------
(* Properties of the MemorySystem's store operations, checked under
   SpecMemoryStore                                                         *)

(* C22: every memory item created by store_interaction,
   store_learning_data, store_knowledge or update_user_preference has an
   importance between the base importance of its content type (0.5, 0.7,
   0.6, 0.8; in thousandths here) and 1.0, whatever the content length and
   the metadata. *)
C22_ImportanceInRange ==
    \A i \in DOMAIN memory_items :
        /\ memory_items[i].content_type \in
               {"interaction", "learning", "knowledge", "preference"}
        /\ memory_items[i].importance >=
               (CASE memory_items[i].content_type = "interaction" -> 500
                  [] memory_items[i].content_type = "learning" -> 700
                  [] memory_items[i].content_type = "knowledge" -> 600
                  [] memory_items[i].content_type = "preference" -> 800)
        /\ memory_items[i].importance <= 1000

\* a long knowledge text with a confident, positively rated metadata, whose
\* importance was capped, next to a preference and a short interaction at
\* their base importance
C22_Witness ==
    /\ \E i \in DOMAIN memory_items :
           /\ memory_items[i].content_type = "knowledge"
           /\ memory_items[i].importance = 1000
    /\ \E i \in DOMAIN memory_items :
           /\ memory_items[i].content_type = "preference"
           /\ memory_items[i].importance = 800
    /\ \E i \in DOMAIN memory_items :
           /\ memory_items[i].content_type = "interaction"
           /\ memory_items[i].importance = 500

(* C30: after every store operation of the MemorySystem has returned, the
   number of stored memory items is at most max_memory_items, for every
   configured max_memory_items >= 1. *)
C30_MemoryBounded == Len(memory_items) <= max_memory_items

---------------------------------------------------------------------------
(* Properties of MemorySystem.retrieve_memories, checked under
   SpecRetrieve                                                            *)

(* C23: retrieve_memories(query, content_type, limit, min_importance)
   returns at most limit items, none with zero keyword relevance, none
   below min_importance and none of another content type than the filter,
   ordered by (relevance, importance) descending; every returned item's
   access_count is exactly one higher than before the call. *)
C23_RetrieveMemories ==
    mem_last.calls > 0 =>
        LET r == mem_last.result
            rel(k) == Relevance(r[k], mem_last.query)
        IN  /\ Len(r) <= mem_last.limit
            /\ \A k \in DOMAIN r :
                   /\ rel(k) > 0
                   /\ r[k].importance >= mem_last.min_importance
                   /\ mem_last.content_type # "" =>
                          r[k].content_type = mem_last.content_type
                   /\ \E i \in DOMAIN mem_last.before :
                          /\ mem_last.before[i].id = r[k].id
                          /\ r[k].access_count =
                                 mem_last.before[i].access_count + 1
            /\ \A k, l \in DOMAIN r :
                   k < l =>
                       \/ rel(k) > rel(l)
                       \/ rel(k) = rel(l) /\ r[k].importance >= r[l].importance

\* a second retrieval that returned a more relevant item ahead of a more
\* important one and left out a still more important item that no word of
\* the query is found in
C23_Witness ==
    /\ mem_last.calls = 2
    /\ Len(mem_last.result) >= 2
    /\ Relevance(mem_last.result[1], mem_last.query)
           > Relevance(mem_last.result[2], mem_last.query)
    /\ mem_last.result[1].importance < mem_last.result[2].importance
    /\ mem_last.result[1].access_count = 3
    /\ \E i \in DOMAIN mem_last.before :
           /\ Relevance(mem_last.before[i], mem_last.query) = 0
           /\ mem_last.before[i].importance
                  >= mem_last.result[2].importance

---------------------------------------------------------------------------
(* Properties of the MemorySystem's sessions, checked under SpecMemory     *)

(* C29: after start_session, N >= 1 store_interaction calls and
   end_session on that session, the session has an end time, its
   interactions list holds the N stored memory ids in call order and its
   summary is the text reporting N interactions; a session ended with no
   recorded interaction keeps a null summary. *)
C29_SessionRecordsInteractions ==
    [][ ( /\ sessions # <<>>
          /\ Len(sessions') = Len(sessions)
          /\ ~sessions[Len(sessions)].ended
          /\ sessions' # sessions )
        => LET session == sessions'[Len(sessions)]
           IN  /\ session.ended
               /\ session.interactions = interaction_log
               /\ session.summary =
                      IF interaction_log # <<>>
                      THEN <<Len(interaction_log)>> ELSE <<>> ]_vars

---------------------------------------------------------------------------
(* Properties of the agent's life cycle, checked under SpecAgentLifecycle  *)

(* C24: after any sequence of sequential initialize, process_input and
   shutdown calls on one agent, at most one session of the MemorySystem has
   no end time, and whenever is_running is true current_session_id names
   that open session; a second initialize leaves no earlier session
   open. *)
C24_OneOpenSession ==
    LET open == {i \in DOMAIN sessions : ~sessions[i].ended}
    IN  /\ Cardinality(open) <= 1
        /\ is_running =>
               \E i \in open : sessions[i].session_id = current_session_id

---------------------------------------------------------------------------
(* Properties of the PrivacyManager, checked under SpecConsent and
   SpecPrivacyDelete                                                       *)

(* C25: check_user_consent(user, data type, purpose) returns the status of
   the most recently requested consent record for that triple, and pending
   when none exists; so after a second request for the same triple has
   been granted it returns granted, and after that one is withdrawn it
   returns withdrawn. *)
C25_CheckReturnsLatestConsent ==
    privacy_last.op = "check" =>
        LET hit == {i \in DOMAIN consent_records :
                       /\ consent_records[i].user_id = privacy_last.arg[1]
                       /\ consent_records[i].data_type = privacy_last.arg[2]
                       /\ consent_records[i].purpose = privacy_last.arg[3]}
        IN  privacy_last.result =
                IF hit = {} THEN "pending"
                ELSE consent_records[CHOOSE i \in hit :
                                         \A j \in hit : j <= i].status

\* the categories a delete_user_data call names: every data type when the
\* argument is not given, the listed ones otherwise
RequestedCategories(data_types) ==
    IF data_types.given THEN data_types.types ELSE DataTypes

(* C26: delete_user_data(user, categories) removes exactly the user's
   processing records in those categories whose purpose is neither
   compliance nor security, keeps the compliance and security ones in place,
   marked anonymized and with the user id replaced by its pseudonym, leaves
   every other record unchanged, and lists each affected record id exactly
   once in its summary, under deleted or anonymized; afterwards no
   processing record in those categories carries the user's id. *)
C26_DeleteUserData ==
    [][ ( /\ privacy_last'.op = "delete"
          /\ privacy_last.op = "delete" => privacy_last' # privacy_last ) =>
        LET user_id == privacy_last'.arg.user_id
            categories == RequestedCategories(privacy_last'.arg.data_types)
            summary == privacy_last'.result
            affected == {i \in DOMAIN processing_records :
                            /\ processing_records[i].user_id = user_id
                            /\ processing_records[i].data_type \in categories}
            removed == {i \in affected :
                           processing_records[i].purpose
                               \notin {"compliance", "security"}}
            kept == DOMAIN processing_records \ removed
            expected ==
                [i \in DOMAIN processing_records |->
                    IF i \in affected
                    THEN [processing_records[i] EXCEPT
                              !.anonymized = TRUE,
                              !.user_id = pseudonymize_user_id(user_id)]
                    ELSE processing_records[i]]
            listed(ids, idx) ==
                /\ Len(ids) = Cardinality(idx)
                /\ {ids[k] : k \in DOMAIN ids} =
                       {processing_records[i].record_id : i \in idx}
        IN  /\ processing_records' = SubSeqIdx(expected, kept)
            /\ listed(summary.deleted_records, removed)
            /\ listed(summary.anonymized_records, affected \ removed)
            /\ \A k \in DOMAIN processing_records' :
                   processing_records'[k].data_type \in categories =>
                       processing_records'[k].user_id # user_id ]_vars

\* whether the latest DatabaseManager call failed
DbFailed ==
    /\ db_last.op # "none"
    /\ \/ ~db_last.initialized
       \/ ExceptionInTry(db_last.op, db_last.fault) # "None"

(* C27: every DatabaseManager write operation that fails rolls its
   transaction back and re-raises to the caller; every read operation that
   fails, also on a manager that was never initialized, raises nothing and
   returns None or an empty result. *)
C27_DatabaseFailures ==
    DbFailed =>
        IF db_last.op \in WriteOperations
        THEN /\ db_last.raised # "None"
             /\ db_last.initialized => db_last.rolled_back
        ELSE /\ db_last.raised = "None"
             /\ db_last.returned = EmptyResult(db_last.op)

\* what ends the loop of run(): the two commands, end of input and the
\* interrupt at the prompt
LoopEnders == {"/quit", "/EXIT", "EOFError", "KeyboardInterrupt"}

\* what run() reads or hands to the agent for processing
InputEventsOfRun == TypedInputs \cup PromptRaises \cup {"process_input"}

ShutdownCalls == CountOf(cli_trace, {"shutdown"})

InitializeSucceeded == \E i \in 1..Len(cli_trace) : cli_trace[i] = "initialize"

\* the loop was left because of one of the four causes: an ender was read,
\* or the interrupt arrived while an input was handled
LeftByAnEnder ==
    \E i \in 1..Len(cli_trace) : cli_trace[i] \in LoopEnders \cup {"farewell"}

(* C28: in a CLI run whose agent initialization succeeded the loop ends on
   /quit, /exit, end of input or keyboard interrupt, agent.shutdown is then
   called exactly once and no input is read or processed after it; after an
   exception raised while one input is handled the error is shown and the
   loop is still running; when initialization failed, shutdown is never
   called. *)
C28_CliRun ==
    /\ ShutdownCalls <= 1
    /\ (cli_pc = "done" /\ InitializeSucceeded) =>
            /\ LeftByAnEnder
            /\ ShutdownCalls = 1
    /\ cli_pc = "loop" => (running /\ ~LeftByAnEnder /\ ShutdownCalls = 0)
    /\ \A i, j \in 1..Len(cli_trace) :
            (cli_trace[i] = "shutdown" /\ i < j) =>
                cli_trace[j] \notin InputEventsOfRun
    /\ (cli_trace # <<>> /\ cli_trace[Len(cli_trace)] = "error_shown") =>
            (cli_pc = "loop" /\ running)
    /\ ~InitializeSucceeded => ShutdownCalls = 0

\* a finished run in which an input raised, a later input was processed and
\* the agent was shut down
C28_Witness ==
    /\ cli_pc = "done"
    /\ ShutdownCalls = 1
    /\ \E i, j \in 1..Len(cli_trace) :
            /\ i < j
            /\ cli_trace[i] = "error_shown"
            /\ cli_trace[j] = "process_input"

(* C31: every id on the short-term list names an item of the memory store,
   the item just stored by store_interaction included, so that
   get_context_memories returns one item per short-term id, as many as
   get_status counts as short-term memories. *)
C31_ShortTermIdsAreStored ==
    /\ \A i \in DOMAIN short_term_memory :
           \E k \in DOMAIN memory_items :
               memory_items[k].id = short_term_memory[i]
    /\ Len(get_context_memories(memory_items, short_term_memory))
           = Len(short_term_memory)

(* C32: for a full backup of the SQLite database whose archive is unaltered,
   restore_backup with restore_database true copies the backed-up database
   file back to the path of the backup's database_url: the database file
   then has the content it had when the backup was created. *)
C32_DatabaseRoundTrip ==
    [][(/\ backup_calls' = backup_calls + 1
        /\ backup_last'.op = "restore"
        /\ backup_last'.result = "True"
        /\ backup_last'.backup_id[1] = "full") =>
           targets'[DbFile] =
               backup_disk[get_backup_info(backup_history,
                               backup_last'.backup_id).file_path].database_db
      ]_vars

(* C33: completing a task whose status is in_progress at the moment of
   completion sets its actual_duration to a non-null value; completing a
   task in any other status leaves actual_duration unchanged. *)
C33_ActualDuration ==
    [][(/\ task_calls' = task_calls + 1
        /\ task_last'.op = "complete"
        /\ task_last'.result.returned) =>
           \A i \in DOMAIN tasks :
               tasks[i].id = task_last'.arg =>
                   IF tasks[i].status = "in_progress"
                   THEN tasks'[i].actual_duration # None
                   ELSE tasks'[i].actual_duration = tasks[i].actual_duration
      ]_vars

(* C34: analyze_user_intent_trend always returns the tally over the
   user_input items that are in the context window at the call: a cached
   result is not returned after the window has changed, be it by
   update_context or by add_agent_response / add_system_event pushing a
   user_input item out of the full window. *)
C34_TrendIsOfCurrentWindow ==
    [][trend_last'.calls = trend_last.calls + 1 =>
           trend_last'.result = IntentTrend(context_history)
      ]_vars

\* the unexpired value the in-process tier holds for a key, or "None"
MemoryValue(key) ==
    IF \E i \in DOMAIN memory_cache :
           /\ memory_cache[i].key = key
           /\ ~memory_cache[i].has_expiry
              \/ memory_cache[i].expires_at > cache_now
    THEN memory_cache[CHOOSE i \in DOMAIN memory_cache :
                          memory_cache[i].key = key].value
    ELSE "None"

\* the unexpired value the remote tier holds for a key, or "None"
RemoteValue(key) ==
    IF redis_client = "connected" THEN RedisGet(redis_store, key, cache_now)
    ELSE "None"

(* C35: get_pattern returns one value for every unexpired matching key that
   is present in either tier, and for a key present in both tiers with
   different values it returns the value of the remote tier. *)
C35_GetPattern ==
    [][(cache_ops' = cache_ops + 1 /\ cache_last'.op = "get_pattern") =>
           LET pattern == cache_last'.result.pattern
               values == cache_last'.result.values
           IN  /\ DOMAIN values =
                      {k \in pattern :
                          MemoryValue(k) # "None" \/ RemoteValue(k) # "None"}
               /\ \A k \in DOMAIN values :
                      (MemoryValue(k) # "None" /\ RemoteValue(k) # "None")
                          => values[k] = RemoteValue(k)
      ]_vars

\* the entries of the loaded history that initialize() removed
RemovedByInitialize ==
    {i \in DOMAIN backup_setup.loaded :
        ~HasBackup(backup_history, backup_setup.loaded[i].backup_id)}

(* C36: after BackupManager.initialize on a loaded history of any length at
   most max_backups entries remain, for every configured max_backups, 0
   included; the entries that remain are the most recently created ones,
   and the archive file of every removed entry has been deleted. *)
C36_InitializeRetention ==
    backup_last.op = "initialize" =>
        /\ Len(backup_history) <= backup_setup.max_backups
        /\ \A i \in RemovedByInitialize, k \in DOMAIN backup_history :
               backup_setup.loaded[i].created_at <= backup_history[k].created_at
        /\ \A i \in RemovedByInitialize :
               backup_setup.loaded[i].file_path \notin DOMAIN backup_disk

(* C37: when create_full_backup or create_config_backup raises, no archive
   of that backup remains in backup_dir and backup_history holds no entry
   for it. *)
C37_FailedCreateLeavesNothing ==
    (backup_last.op = "create" /\ backup_last.result = "raised") =>
        /\ BackupPath(backup_last.backup_id) \notin DOMAIN backup_disk
        /\ ArchivePath(backup_last.backup_id) \notin DOMAIN backup_disk
        /\ ~HasBackup(backup_history, backup_last.backup_id)

(* C38: after any sequence of create_full_backup, create_config_backup and
   delete_backup calls, two creations of one type within one clock second
   included, the backup ids of backup_history are pairwise distinct, every
   entry has an archive file of its own, and the checksum an entry records
   is the checksum of its file. *)
C38_BackupIdsDistinct ==
    /\ \A i, j \in DOMAIN backup_history :
           i # j =>
               /\ backup_history[i].backup_id # backup_history[j].backup_id
               /\ backup_history[i].file_path # backup_history[j].file_path
    /\ \A i \in DOMAIN backup_history :
           /\ backup_history[i].file_path \in DOMAIN backup_disk
           /\ _verify_checksum(backup_disk[backup_history[i].file_path],
                               backup_history[i].checksum)

\* two creations of one type were made within one second, a delete call
\* removed a backup, and the history still holds one
C38_Witness ==
    /\ \E i, j \in DOMAIN created :
           i # j /\ created[i].backup_id = created[j].backup_id
    /\ backup_last.op = "delete"
    /\ backup_last.result = "True"
    /\ backup_history # <<>>


(* C39: once logout_user(token) has returned True, the token is accepted
   nowhere: get_active_session of the token's session returns None and
   verify_token(token) returns no claims, at every later time and so also
   before the expiry time the token carries. *)
C39_LoggedOutTokenRejected ==
    \A token \in logged_out :
        /\ get_active_session(active_sessions, token.payload.session_id,
                              session_now) = None
        /\ verify_token(token, session_now) = None

(* C40: cleanup_expired_data is idempotent: a call made right after
   another one, at the same time and with no call in between, reports zero
   deleted and zero anonymized records and leaves every processing record
   as it was, the pseudonymized user id of the retained compliance and
   security records included. *)
C40_CleanupIdempotent ==
    [][(/\ privacy_last.op = "cleanup"
        /\ privacy_last.arg = privacy_now
        /\ privacy_last'.op = "cleanup"
        /\ privacy_now' = privacy_now)
       => /\ privacy_last'.result = [deleted_records |-> 0,
                                     anonymized_records |-> 0]
          /\ processing_records' = processing_records]_vars

====
